---- MODULE Spec2Model ----
(***************************************************************************)
(* Cache-aware history synchronisation of telegram-scraper-server.         *)
(*                                                                         *)
(* Timestamps are whole seconds (Telegram message dates and the dates the  *)
(* history endpoint parses have second resolution; the store keeps them as *)
(* "%Y-%m-%d %H:%M:%S" strings, whose lexicographic order is the           *)
(* chronological order), so a timestamp is a natural number.               *)
(*                                                                         *)
(* An Optional value of the source is a sequence of length 0 (None) or 1.  *)
(*                                                                         *)
(* scraper.py names the conversation parameter channel_id where            *)
(* operations.py names it dialog_id; the model binds the two as the same   *)
(* parameter (one conversation is modelled).                               *)
(***************************************************************************)
EXTENDS Integers, Sequences, FiniteSets, TLC

\* ------------------------------------------------------------------ bounds
MaxTime == 2

MaxMsgs == 3

MaxBatch == 2

MaxWait == 2

MaxMedia == 1

Times == 0..MaxTime

MaxUsers == 1

Users == 1..MaxUsers

\* ------------------------------------------------------------ small helpers
Max(a, b) == IF a >= b THEN a ELSE b

Min(a, b) == IF a <= b THEN a ELSE b

None == <<>>

Some(x) == <<x>>

Range(s) == {s[i] : i \in 1..Len(s)}

RECURSIVE Flatten(_)
Flatten(ss) == IF ss = <<>> THEN <<>> ELSE Head(ss) \o Flatten(Tail(ss))

\* models.DateRange
DateRange(start, end) == [start |-> start, end |-> end]

\* models.TimelineSegment
TimelineSegment(start, end, source) == [start |-> start, end |-> end, source |-> source]

\* list.sort(key=lambda s: s.start) / sorted(..., key=lambda r: r.start):
\* a stable sort by the start field (insertion of each element after the
\* elements whose start is <= its own).
RECURSIVE InsertByStart(_, _)
InsertByStart(x, s) ==
    IF s = <<>> THEN <<x>>
    ELSE IF Head(s).start <= x.start THEN <<Head(s)>> \o InsertByStart(x, Tail(s))
    ELSE <<x>> \o s

RECURSIVE SortByStart(_)
SortByStart(s) ==
    IF s = <<>> THEN <<>>
    ELSE InsertByStart(s[Len(s)], SortByStart(SubSeq(s, 1, Len(s) - 1)))

\* ------------------------------------------------------------ range algebra
\* scraper.find_gaps with the "before" gap clipped to cached.end (a slip in
\* the clipping bound)
find_gaps_badclip(requested, cached_range) ==
    IF cached_range = None THEN <<requested>>
    ELSE LET c == cached_range[1]
             before == IF requested.start < c.start
                       THEN <<DateRange(requested.start, Min(c.end, requested.end))>>
                       ELSE <<>>
             after == IF requested.end > c.end
                      THEN <<DateRange(Max(c.end, requested.start), requested.end)>>
                      ELSE <<>>
         IN before \o after

\* scraper.find_gaps
find_gaps(requested, cached_range) ==
    IF cached_range = None THEN <<requested>>
    ELSE LET c == cached_range[1]
             before == IF requested.start < c.start
                       THEN <<DateRange(requested.start, Min(c.start, requested.end))>>
                       ELSE <<>>
             after == IF requested.end > c.end
                      THEN <<DateRange(Max(c.end, requested.start), requested.end)>>
                      ELSE <<>>
         IN before \o after

\* scraper.find_covered_range
find_covered_range(requested, cached_range) ==
    IF cached_range = None THEN None
    ELSE LET c == cached_range[1]
             overlap_start == Max(requested.start, c.start)
             overlap_end == Min(requested.end, c.end)
         IN IF overlap_start < overlap_end
            THEN Some(DateRange(overlap_start, overlap_end))
            ELSE None

\* scraper.build_timeline without its final sort
build_timeline_unsorted(covered, gaps) ==
    LET gapSegs == [i \in 1..Len(gaps) |->
                       TimelineSegment(gaps[i].start, gaps[i].end, "telegram")]
        covSegs == IF covered # None
                   THEN <<TimelineSegment(covered[1].start, covered[1].end, "cache")>>
                   ELSE <<>>
    IN gapSegs \o covSegs

\* scraper.build_timeline
build_timeline(covered, gaps) ==
    LET gapSegs == [i \in 1..Len(gaps) |->
                       TimelineSegment(gaps[i].start, gaps[i].end, "telegram")]
        covSegs == IF covered # None
                   THEN <<TimelineSegment(covered[1].start, covered[1].end, "cache")>>
                   ELSE <<>>
    IN SortByStart(gapSegs \o covSegs)

\* ------------------------------------------------------------------ state
VARIABLES
    remote,               \* messages the remote source holds: set of [id, date]
    remote_flood,         \* seconds the remote source asks to wait (0: not throttled)
    db,                   \* committed tables: [messages, media]
    sess,                 \* the Session's view: committed state plus pending writes
    db0,                  \* committed tables when the running sync started
    db_batch,             \* committed tables when the save of the current batch began
    pc,                   \* position of the sync coroutine
    requested,            \* DateRange(start_date, end_date) of the running sync
    force_refresh,
    telegram_batch_size,
    client_batch_size,
    cached_range,         \* Optional DateRange
    gaps,
    covered,              \* Optional DateRange
    segments,
    segi,                 \* index of the segment being walked
    iter,                 \* what client.iter_messages still has to return
    batch,                \* download_from_telegram_batched's batch
    final,                \* the batch being saved is the one after the loop
    savek,                \* index of the batch element whose media is stored next
    cache_offset,         \* iter_messages_in_range's offset
    cache_rows,           \* rows of the current cache batch not yet processed
    client_buffer,
    out,                  \* chunks yielded to the caller so far
    produced,             \* items in the order in which they joined client_buffer
    listing,              \* segments for which a remote listing was issued
    err,                  \* Optional error the sync ended with
    prev,                 \* Optional [requested, force, items] of the last completed sync
    query,                \* Optional [chunk_size, force_refresh, reverse] of the get_history request being served
    detail,               \* detail of the HTTPException get_history raised last ("": none)
    status,               \* HTTP status of the last get_history response (0: none yet)
    storage_open,         \* the handler of the last request has opened the storage and not closed it
    remote_calls,         \* remote calls get_history itself has made for the request
    store_call,           \* Optional last call of a storage operation applied on its own
    qr_objects,           \* the _QRSession objects ever created; the token is the index
    qr_sessions,          \* _qr_sessions: the tokens in the session table
    session_files,        \* usernames that have a <username>.session file
    client_pool,          \* auth_utils._client_pool: usernames with a pooled client
    twofa_req,            \* tokens of the submit_2fa_password calls that are in their sleep loop
    qr_resp,              \* Optional response of the handler step just taken
    qr_terminal,          \* tokens for which get_qr_status has returned a terminal status
    settings,             \* config.settings: the runtime settings in memory
    settings_saved,       \* settings.yaml holds the settings in memory
    patch_call,           \* Optional [fields, types, code] of the last update_settings call
    download,             \* Optional state of the last download_media call made for a fetched message
    merge_call,           \* Optional [ranges, result] of the last merge_overlapping_ranges call
    completed,            \* the requested ranges of the syncs that ran to their end, oldest first (kept by FinishLogged only)
    client_locks,         \* auth_utils._client_locks: the lock object of each username (0: none)
    locks_held,           \* the asyncio.Lock objects that are held
    nlocks,               \* the asyncio.Lock objects created so far
    pool_clients,         \* auth_utils._client_pool as get_telegram_client sees it: the client object of each username (0: none)
    tclients,             \* the TelegramClient objects get_telegram_client created: connected or not
    callers               \* the get_telegram_client calls: [pc, username, lock, client]

vars == <<remote, remote_flood, db, sess, db0, db_batch, pc, requested, force_refresh,
          telegram_batch_size, client_batch_size, cached_range, gaps, covered,
          segments, segi, iter, batch, final, savek, cache_offset, cache_rows,
          client_buffer, out, produced, listing, err, prev,
          query, detail, status, storage_open, remote_calls, store_call,
          qr_objects, qr_sessions, session_files, client_pool, twofa_req, qr_resp,
          qr_terminal, settings, settings_saved, patch_call, download,
          merge_call,
          completed,
          client_locks, locks_held, nlocks, pool_clients, tclients, callers>>

\* the request layer and the storage operations applied on their own
histvars == <<query, detail, status, storage_open, remote_calls>>

storevars == <<store_call>>

qrvars == <<qr_objects, qr_sessions, session_files, client_pool, twofa_req, qr_resp,
           qr_terminal>>

setvars == <<settings, settings_saved, patch_call>>

dlvars == <<download>>

mergevars == <<merge_call>>

covvars == <<completed>>

poolvars == <<client_locks, locks_held, nlocks, pool_clients, tclients, callers>>

othervars == <<histvars, storevars, qrvars, setvars, dlvars, mergevars, covvars, poolvars>>

syncvars == <<requested, force_refresh, telegram_batch_size, client_batch_size,
              cached_range, gaps, covered, segments, segi, iter, batch, final,
              savek, cache_offset, cache_rows, client_buffer, out, produced,
              listing, err>>

\* A requested range satisfies start < end (get_history rejects the others).
RequestedRanges == {r \in {DateRange(a, b) : a \in Times, b \in Times} : r.start < r.end}

\* The range algebra alone is applied over a longer time line.
AlgebraTimes == 0..(MaxTime + 1)

AlgebraRequested ==
    {r \in {DateRange(a, b) : a \in AlgebraTimes, b \in AlgebraTimes} : r.start < r.end}

\* A cached range is (min date, max date) of the stored rows: start <= end.
CachedRanges == {None} \cup
    {Some(r) : r \in {x \in {DateRange(a, b) : a \in AlgebraTimes, b \in AlgebraTimes} :
                          x.start <= x.end}}

NoRange == DateRange(0, 0)

EmptyDb == [messages |-> {}, media |-> {}]

\* The remote histories: MaxMsgs messages, ids ascending with the date.
RemoteHistories ==
    {{[id |-> i, date |-> f[i]] : i \in 1..MaxMsgs} :
        f \in {g \in [1..MaxMsgs -> Times] :
                  \A i \in 1..MaxMsgs : \A j \in 1..MaxMsgs : i <= j => g[i] <= g[j]}}

\* The remote history of the requests to the endpoint: one message a second
\* while the time line lasts
HistoryRemotes == {{[id |-> i, date |-> Min(i - 1, MaxTime)] : i \in 1..MaxMsgs}}

\* ---------------------------------------------------------------- storage
Ids(rows) == {r.message_id : r \in rows}

MinDate(rows) == CHOOSE d \in {r.date : r \in rows} : \A r \in rows : d <= r.date

MaxDate(rows) == CHOOSE d \in {r.date : r \in rows} : \A r \in rows : d >= r.date

\* operations.get_cached_date_range that takes the newest row for both ends
get_cached_date_range_newest(s) ==
    IF s.messages = {} THEN None
    ELSE Some(DateRange(MaxDate(s.messages), MaxDate(s.messages)))

\* operations.get_cached_date_range: (min(date), max(date)) of the stored
\* rows of the conversation, None when there is none
get_cached_date_range(s) ==
    IF s.messages = {} THEN None
    ELSE Some(DateRange(MinDate(s.messages), MaxDate(s.messages)))

\* ORDER BY date of a set of rows or remote messages; rows of equal date come
\* in the order of their ids (ids ascend with the insertion order of equal
\* dates, because a listing returns equal dates in id order).
Key(x) == IF "message_id" \in DOMAIN x THEN x.message_id ELSE x.id

Before(x, y) == x.date < y.date \/ (x.date = y.date /\ Key(x) <= Key(y))

RECURSIVE OrderByDate(_)
OrderByDate(S) ==
    IF S = {} THEN <<>>
    ELSE LET m == CHOOSE x \in S : \A y \in S : Before(x, y)
         IN <<m>> \o OrderByDate(S \ {m})

Take(s, n) == SubSeq(s, 1, Min(n, Len(s)))

Drop(s, n) == SubSeq(s, Min(n, Len(s)) + 1, Len(s))

\* The SELECT of operations.iter_messages_in_range with the end bound
\* exclusive (date < end)
select_messages_in_range_open(s, start_date, end_date, offset, batch_size) ==
    Take(Drop(OrderByDate({r \in s.messages : r.date >= start_date /\ r.date < end_date}),
              offset), batch_size)

\* The SELECT of operations.iter_messages_in_range:
\* date >= start AND date <= end ORDER BY date OFFSET offset LIMIT batch_size
select_messages_in_range(s, start_date, end_date, offset, batch_size) ==
    Take(Drop(OrderByDate({r \in s.messages : r.date >= start_date /\ r.date <= end_date}),
              offset), batch_size)

\* select(Message).where(message_id == ...).first()
FirstMessage(rows, message_id) ==
    IF \E r \in rows : r.message_id = message_id
    THEN Some(CHOOSE r \in rows : r.message_id = message_id)
    ELSE None

\* operations.batch_upsert_messages that inserts without looking for the row
upsert_message_insert(rows, msg) ==
    rows \cup {[message_id |-> msg.message_id, date |-> msg.date, media_uuid |-> 0]}

\* operations.batch_upsert_messages(replace_existing=True, auto_commit=False):
\* one message
upsert_message(rows, msg) ==
    LET existing == FirstMessage(rows, msg.message_id)
    IN IF existing # None
       THEN (rows \ {existing[1]}) \cup {[existing[1] EXCEPT !.date = msg.date]}
       ELSE rows \cup {[message_id |-> msg.message_id, date |-> msg.date, media_uuid |-> 0]}

RECURSIVE upsert_all(_, _)
upsert_all(rows, messages) ==
    IF messages = <<>> THEN rows
    ELSE upsert_all(upsert_message(rows, Head(messages)), Tail(messages))

\* operations.batch_upsert_messages that keeps only the rows of the batch
batch_upsert_messages_only(s, messages) ==
    [s EXCEPT !.messages = upsert_all({}, messages)]

\* operations.batch_upsert_messages whose loop misses the last message
batch_upsert_messages_short(s, messages) ==
    [s EXCEPT !.messages = upsert_all(s.messages, SubSeq(messages, 1, Len(messages) - 1))]

\* operations.batch_upsert_messages on the session (no commit)
batch_upsert_messages(s, messages) ==
    [s EXCEPT !.messages = upsert_all(s.messages, messages)]

\* operations.generate_media_uuid: an identifier no media row of the session has
generate_media_uuid(s) ==
    CHOOSE u \in 1..(Cardinality(s.media) + 1) : \A f \in s.media : f.uuid # u

\* operations.store_media_with_uuid that does not look for the MediaFile the
\* message is linked to
store_media_with_uuid_fresh(s, message_id, file_path) ==
    LET message == FirstMessage(s.messages, message_id)
        media_uuid == generate_media_uuid(s)
    IN [sess |-> [messages |->
                    IF message # None
                    THEN (s.messages \ {message[1]}) \cup
                         {[message[1] EXCEPT !.media_uuid = media_uuid]}
                    ELSE s.messages,
                  media |-> s.media \cup {[uuid |-> media_uuid, file_path |-> file_path]}],
        uuid |-> media_uuid]

\* operations.store_media_with_uuid up to its commit: the session after the
\* writes and the returned uuid. file_path is never None at its call sites in
\* download_from_telegram_batched.
store_media_with_uuid(s, message_id, file_path) ==
    LET message == FirstMessage(s.messages, message_id)
        existing_uuid == IF message # None THEN message[1].media_uuid ELSE 0
        existing == {f \in s.media : f.uuid = existing_uuid}
    IN IF existing_uuid # 0 /\ existing # {}
       THEN [sess |-> [s EXCEPT !.media = {IF f.uuid = existing_uuid
                                            THEN [f EXCEPT !.file_path =
                                                     IF file_path # 0 THEN file_path ELSE @]
                                            ELSE f : f \in s.media}],
             uuid |-> existing_uuid]
       ELSE LET media_uuid == generate_media_uuid(s)
            IN [sess |-> [messages |->
                            IF message # None
                            THEN (s.messages \ {message[1]}) \cup
                                 {[message[1] EXCEPT !.media_uuid = media_uuid]}
                            ELSE s.messages,
                          media |-> s.media \cup
                                    {[uuid |-> media_uuid, file_path |-> file_path]}],
                  uuid |-> media_uuid]

\* operations.update_media_file_path up to its commit (file_size is not
\* modelled): the MediaFile of that uuid, if there is one, gets the path
update_media_file_path(s, media_uuid, file_path) ==
    [s EXCEPT !.media = {IF f.uuid = media_uuid THEN [f EXCEPT !.file_path = file_path]
                         ELSE f : f \in s.media}]

\* Session.commit that writes nothing
commit_lost(d, s) == d

\* Session.commit: the pending writes of the session become the committed state
commit(d, s) == s

\* Session.rollback: the session is back at the committed state
rollback(d, s) == d

\* ---------------------------------------------------------- remote source
\* client.iter_messages(entity, offset_date=start, reverse=True): the
\* messages from offset_date on, oldest first (tests/mock_telegram.py)
iter_messages(msgs, offset_date) ==
    OrderByDate({m \in msgs : m.date >= offset_date})

\* the messages that carry an attachment
MediaIds == 1..MaxMedia

\* ------------------------------------------------------------ output items
\* The dict built from a MessageData of a just-committed batch
telegram_item(msg) ==
    [message_id |-> msg.message_id, date |-> msg.date,
     media_uuid |-> msg.media_uuid, source |-> "telegram"]

\* The dict built from a stored row, with the media info of its MediaFile
cache_item(s, row) ==
    LET media_uuid == LET m == FirstMessage(s.messages, row.message_id)
                      IN IF m # None THEN m[1].media_uuid ELSE 0
        media_info == {f \in s.media : f.uuid = media_uuid}
    IN [message_id |-> row.message_id, date |-> row.date,
        media_uuid |-> IF media_uuid # 0 /\ media_info # {} THEN media_uuid ELSE 0,
        source |-> "cache"]

Items == Flatten(out) \o client_buffer

\* the record an item stands for: (remote record id, timestamp)
Ident(item) == [message_id |-> item.message_id, date |-> item.date]

IdentSeq(s) == [i \in 1..Len(s) |-> Ident(s[i])]

\* download_from_telegram_batched's loop test that lets the first record past
\* end_date through
past_end_late(message, end_date) == message.date > end_date + 1

\* if message.date > end_date: break
past_end(message, end_date) == message.date > end_date

\* ------------------------------------------------------------------- sync
Error(kind, seconds) == Some([kind |-> kind, seconds |-> seconds])

\* index of the first batch element from k on that has a media_path
RECURSIVE NextMedia(_, _)
NextMedia(b, k) ==
    IF k > Len(b) THEN k
    ELSE IF b[k].media_path # 0 THEN k ELSE NextMedia(b, k + 1)

InitSync ==
    /\ requested = NoRange
    /\ force_refresh = FALSE
    /\ telegram_batch_size = 1
    /\ client_batch_size = 1
    /\ cached_range = None
    /\ gaps = <<>>
    /\ covered = None
    /\ segments = <<>>
    /\ segi = 0
    /\ iter = <<>>
    /\ batch = <<>>
    /\ final = FALSE
    /\ savek = 0
    /\ cache_offset = 0
    /\ cache_rows = <<>>
    /\ client_buffer = <<>>
    /\ out = <<>>
    /\ produced = <<>>
    /\ listing = <<>>
    /\ err = None

\* the locals of the coroutine are gone
ResetSync ==
    /\ requested' = NoRange
    /\ force_refresh' = FALSE
    /\ telegram_batch_size' = 1
    /\ client_batch_size' = 1
    /\ cached_range' = None
    /\ gaps' = <<>>
    /\ covered' = None
    /\ segments' = <<>>
    /\ segi' = 0
    /\ iter' = <<>>
    /\ batch' = <<>>
    /\ final' = FALSE
    /\ savek' = 0
    /\ cache_offset' = 0
    /\ cache_rows' = <<>>
    /\ client_buffer' = <<>>
    /\ out' = <<>>
    /\ produced' = <<>>
    /\ listing' = <<>>
    /\ err' = None

\* ------------------------------------------------------------- settings
\* api/settings.py: the fields of SettingsResponse; sizes in MB are naturals,
\* two of the per-file-type toggles are modelled
MaxSize == 1

FileTypes == {"photos", "videos"}

Toggles == [FileTypes -> BOOLEAN]

AllSettings ==
    [download_media : BOOLEAN,
     max_media_size_mb : {None} \cup {Some(v) : v \in 1..MaxSize},
     telegram_batch_size : 1..MaxBatch,
     repair_media : BOOLEAN,
     download_file_types : Toggles]

DefaultSettings ==
    [download_media |-> TRUE,
     max_media_size_mb |-> Some(MaxSize),
     telegram_batch_size |-> MaxBatch,
     repair_media |-> FALSE,
     download_file_types |-> [t \in FileTypes |-> TRUE]]

\* ------------------------------------------------------- the client pool
\* api/auth_utils.py: MaxCallers requests may be inside get_telegram_client at
\* a time; at most MaxLocks lock objects and MaxClients client objects are
\* created
MaxCallers == 2

MaxLocks == 2

MaxClients == 2

Callers == 1..MaxCallers

NoCall == [pc |-> "idle", username |-> 0, lock |-> 0, client |-> 0]

\* _client_pool = {}, _client_locks = {}, no request yet
InitPool ==
    /\ client_locks = [u \in Users |-> 0]
    /\ locks_held = {}
    /\ nlocks = 0
    /\ pool_clients = [u \in Users |-> 0]
    /\ tclients = <<>>
    /\ callers = [c \in Callers |-> NoCall]

\* no request is being served, no storage operation has been applied on its own
InitOther ==
    /\ settings = DefaultSettings
    /\ settings_saved = TRUE
    /\ patch_call = None
    /\ download = None
    /\ merge_call = None
    /\ completed = <<>>
    /\ InitPool
    /\ query = None
    /\ detail = ""
    /\ status = 0
    /\ storage_open = FALSE
    /\ remote_calls = {}
    /\ store_call = None
    /\ qr_objects = <<>>
    /\ qr_sessions = {}
    /\ session_files = {}
    /\ client_pool = {}
    /\ twofa_req = {}
    /\ qr_resp = None
    /\ qr_terminal = {}

Init ==
    /\ remote \in RemoteHistories
    /\ remote_flood = 0
    /\ db = EmptyDb
    /\ sess = EmptyDb
    /\ db0 = EmptyDb
    /\ db_batch = EmptyDb
    /\ pc = "idle"
    /\ prev = None
    /\ InitSync
    /\ InitOther

\* stream_messages_with_cache's timeline when force_refresh is not looked at
plan_timeline_cached(force, req, s) ==
    LET cached == get_cached_date_range(s)
        g == find_gaps(req, cached)
        c == find_covered_range(req, cached)
    IN [cached_range |-> cached, gaps |-> g, covered |-> c,
        segments |-> build_timeline(c, g)]

\* stream_messages_with_cache: the timeline of the sync. With force_refresh
\* it is one telegram segment and the cache is not looked at.
plan_timeline(force, req, s) ==
    IF force
    THEN [cached_range |-> None, gaps |-> <<>>, covered |-> None,
          segments |-> <<TimelineSegment(req.start, req.end, "telegram")>>]
    ELSE LET cached == get_cached_date_range(s)
             g == find_gaps(req, cached)
             c == find_covered_range(req, cached)
         IN [cached_range |-> cached, gaps |-> g, covered |-> c,
             segments |-> build_timeline(c, g)]

\* download_from_telegram_batched as a function: the messages of the listing
\* from start_date on, up to the first one past end_date
fetched_messages(msgs, start_date, end_date) ==
    LET l == iter_messages(msgs, start_date)
        stop == IF \E i \in 1..Len(l) : l[i].date > end_date
                THEN (CHOOSE i \in 1..Len(l) :
                         /\ l[i].date > end_date
                         /\ \A j \in 1..(i - 1) : l[j].date <= end_date) - 1
                ELSE Len(l)
    IN [i \in 1..stop |-> [message_id |-> l[i].id, date |-> l[i].date]]

\* stream_messages_with_cache as a function, for a sync that no error ends:
\* the records it emits walking the segments in order, a remote segment
\* storing what it fetched before the next segment is read
RECURSIVE walk_segments(_, _, _)
walk_segments(segs, rows, msgs) ==
    IF segs = <<>> THEN <<>>
    ELSE LET seg == Head(segs)
         IN IF seg.source = "cache"
            THEN IdentSeq(OrderByDate({r \in rows : r.date >= seg.start /\ r.date <= seg.end}))
                     \o walk_segments(Tail(segs), rows, msgs)
            ELSE LET f == fetched_messages(msgs, seg.start, seg.end)
                 IN f \o walk_segments(Tail(segs), upsert_all(rows, f), msgs)

sync_items(force, req, s, msgs) ==
    walk_segments(plan_timeline(force, req, s).segments, s.messages, msgs)

\* client_buffer[:client_batch_size] that takes one item too many
first_chunk_long(buf, n) == Take(buf, n + 1)

\* client_buffer[:client_batch_size]
first_chunk(buf, n) == Take(buf, n)

\* client_buffer[client_batch_size:]
rest_chunk(buf, n) == Drop(buf, n)

\* stream_messages_with_cache, up to the timeline
StreamBegin(start_date, end_date, tbs, cbs, force) ==
    /\ requested' = DateRange(start_date, end_date)
    /\ force_refresh' = force
    /\ telegram_batch_size' = tbs
    /\ client_batch_size' = cbs
    /\ client_buffer' = <<>>
    /\ LET t == plan_timeline(force, DateRange(start_date, end_date), sess)
       IN /\ cached_range' = t.cached_range
          /\ gaps' = t.gaps
          /\ covered' = t.covered
          /\ segments' = t.segments
    /\ segi' = 1
    /\ db0' = db
    /\ db_batch' = db
    /\ pc' = "segments"
    /\ UNCHANGED <<remote, remote_flood, db, sess, iter, batch, final, savek,
                   cache_offset, cache_rows, out, produced, listing, err, prev>>

\* A sync is started on an idle conversation
StartSync(start_date, end_date, tbs, cbs, force) ==
    /\ pc = "idle"
    /\ StreamBegin(start_date, end_date, tbs, cbs, force)
    /\ UNCHANGED othervars

\* for segment in segments: enter the next segment, or leave the loop
WalkSegment ==
    /\ pc = "segments"
    /\ IF segi > Len(segments)
       THEN /\ pc' = "flush"
            /\ UNCHANGED <<cache_offset, batch, iter, listing>>
       ELSE IF segments[segi].source = "cache"
       THEN /\ pc' = "cache_query"
            /\ cache_offset' = 0
            /\ UNCHANGED <<batch, iter, listing>>
       ELSE /\ pc' = "telegram"
            /\ batch' = <<>>
            /\ iter' = iter_messages(remote, segments[segi].start)
            /\ listing' = Append(listing, segments[segi])
            /\ UNCHANGED cache_offset
    /\ UNCHANGED <<remote, remote_flood, db, sess, db0, db_batch, requested, force_refresh,
                   telegram_batch_size, client_batch_size, cached_range, gaps,
                   covered, segments, segi, final, savek, cache_rows,
                   client_buffer, out, produced, err, prev>>
    /\ UNCHANGED othervars

\* iter_messages_in_range: one pass of its while loop
CacheQuery ==
    /\ pc = "cache_query"
    /\ LET results == select_messages_in_range(sess, segments[segi].start,
                          segments[segi].end, cache_offset, telegram_batch_size)
       IN IF results = <<>>
          THEN /\ pc' = "segments"
               /\ segi' = segi + 1
               /\ UNCHANGED cache_rows
          ELSE /\ pc' = "cache_rows"
               /\ cache_rows' = results
               /\ UNCHANGED segi
    /\ UNCHANGED <<remote, remote_flood, db, sess, db0, db_batch, requested, force_refresh,
                   telegram_batch_size, client_batch_size, cached_range, gaps,
                   covered, segments, iter, batch, final, savek, cache_offset,
                   client_buffer, out, produced, listing, err, prev>>
    /\ UNCHANGED othervars

\* the row loop of a cache segment over an iter_messages_in_range whose offset
\* moves on by one more than the page size
CacheRow_stride ==
    /\ pc = "cache_rows"
    /\ LET buf == Append(client_buffer, cache_item(sess, Head(cache_rows)))
       IN IF Len(buf) >= client_batch_size
          THEN /\ out' = Append(out, first_chunk(buf, client_batch_size))
               /\ client_buffer' = rest_chunk(buf, client_batch_size)
          ELSE /\ client_buffer' = buf
               /\ UNCHANGED out
    /\ produced' = Append(produced, cache_item(sess, Head(cache_rows)))
    /\ cache_rows' = Tail(cache_rows)
    /\ IF cache_rows' = <<>>
       THEN /\ cache_offset' = cache_offset + telegram_batch_size + 1
            /\ pc' = "cache_query"
       ELSE UNCHANGED <<cache_offset, pc>>
    /\ UNCHANGED <<remote, remote_flood, db, sess, db0, db_batch, requested, force_refresh,
                   telegram_batch_size, client_batch_size, cached_range, gaps,
                   covered, segments, segi, iter, batch, final, savek, listing,
                   err, prev>>
    /\ UNCHANGED othervars

\* for row in batch: the row joins client_buffer, which is yielded when full
CacheRow ==
    /\ pc = "cache_rows"
    /\ LET buf == Append(client_buffer, cache_item(sess, Head(cache_rows)))
       IN IF Len(buf) >= client_batch_size
          THEN /\ out' = Append(out, first_chunk(buf, client_batch_size))
               /\ client_buffer' = rest_chunk(buf, client_batch_size)
          ELSE /\ client_buffer' = buf
               /\ UNCHANGED out
    /\ produced' = Append(produced, cache_item(sess, Head(cache_rows)))
    /\ cache_rows' = Tail(cache_rows)
    /\ IF cache_rows' = <<>>
       THEN /\ cache_offset' = cache_offset + telegram_batch_size
            /\ pc' = "cache_query"
       ELSE UNCHANGED <<cache_offset, pc>>
    /\ UNCHANGED <<remote, remote_flood, db, sess, db0, db_batch, requested, force_refresh,
                   telegram_batch_size, client_batch_size, cached_range, gaps,
                   covered, segments, segi, iter, batch, final, savek, listing,
                   err, prev>>
    /\ UNCHANGED othervars

LoopEnded == iter = <<>> \/ past_end(Head(iter), segments[segi].end)

\* download_from_telegram_batched: one pass of its async for loop. A message
\* of MediaIds carries an attachment; media_path is the path download_media
\* returned for it (0, the source's None: scrape_media off, the download
\* skipped by the size policy or the type filter, or failed). A message
\* without attachment has media_path 0.
FetchMessage ==
    /\ pc = "telegram"
    /\ remote_flood = 0
    /\ IF LoopEnded
       THEN /\ IF batch # <<>>
               THEN /\ pc' = "save_upsert"
                    /\ final' = TRUE
                    /\ UNCHANGED segi
               ELSE /\ pc' = "segments"
                    /\ segi' = segi + 1
                    /\ UNCHANGED final
            /\ UNCHANGED <<iter, batch>>
       ELSE /\ \E media_path \in {0} \cup ({Head(iter).id} \cap MediaIds) :
                 batch' = Append(batch, [message_id |-> Head(iter).id,
                                         date |-> Head(iter).date,
                                         media_path |-> media_path,
                                         media_uuid |-> 0])
            /\ iter' = Tail(iter)
            /\ IF Len(batch') >= telegram_batch_size
               THEN /\ pc' = "save_upsert"
                    /\ final' = FALSE
               ELSE UNCHANGED <<pc, final>>
            /\ UNCHANGED segi
    /\ UNCHANGED <<remote, remote_flood, db, sess, db0, db_batch, requested, force_refresh,
                   telegram_batch_size, client_batch_size, cached_range, gaps,
                   covered, segments, savek, cache_offset, cache_rows,
                   client_buffer, out, produced, listing, err, prev>>
    /\ UNCHANGED othervars

\* the record whose processing raises is logged and skipped, and the loop
\* goes on
ProcessingError_continue ==
    /\ pc = "telegram"
    /\ remote_flood = 0
    /\ ~LoopEnded
    /\ iter' = Tail(iter)
    /\ UNCHANGED <<remote, remote_flood, db, sess, db0, db_batch, pc, requested,
                   force_refresh, telegram_batch_size, client_batch_size, cached_range,
                   gaps, covered, segments, segi, batch, final, savek, cache_offset,
                   cache_rows, client_buffer, out, produced, listing, err, prev>>
    /\ UNCHANGED othervars

\* Processing a message raises (message.get_sender fails): logged and re-raised
ProcessingError ==
    /\ pc = "telegram"
    /\ remote_flood = 0
    /\ ~LoopEnded
    /\ pc' = "error"
    /\ err' = Error("ProcessingError", 0)
    /\ UNCHANGED <<remote, remote_flood, db, sess, db0, db_batch, requested, force_refresh,
                   telegram_batch_size, client_batch_size, cached_range, gaps,
                   covered, segments, segi, iter, batch, final, savek,
                   cache_offset, cache_rows, client_buffer, out, produced, listing, prev>>
    /\ UNCHANGED othervars

\* The remote source starts throttling the account
Throttle(w) ==
    /\ pc = "telegram"
    /\ remote_flood = 0
    /\ remote_flood' = w
    /\ UNCHANGED <<remote, db, sess, db0, db_batch, pc, prev>>
    /\ UNCHANGED syncvars
    /\ UNCHANGED othervars

\* the error with which the listing call of a throttled account ends the
\* sync, were the wait duration not carried along
flood_wait_error_bare(seconds) == Error("FloodWaitError", 0)

\* FloodWaitError(seconds) raised by client.iter_messages; nothing in
\* download_from_telegram_batched or stream_messages_with_cache catches it
flood_wait_error(seconds) == Error("FloodWaitError", seconds)

\* The listing call raises the rate-limit signal
ListingFloodWait ==
    /\ pc = "telegram"
    /\ remote_flood > 0
    /\ pc' = "error"
    /\ err' = flood_wait_error(remote_flood)
    /\ UNCHANGED <<remote, remote_flood, db, sess, db0, db_batch, requested, force_refresh,
                   telegram_batch_size, client_batch_size, cached_range, gaps,
                   covered, segments, segi, iter, batch, final, savek,
                   cache_offset, cache_rows, client_buffer, out, produced, listing, prev>>
    /\ UNCHANGED othervars

\* _batch_insert_messages(session, batch, channel_id)
SaveUpsert ==
    /\ pc = "save_upsert"
    /\ sess' = batch_upsert_messages(sess, batch)
    /\ savek' = NextMedia(batch, 1)
    /\ pc' = "save_media"
    /\ db_batch' = db
    /\ UNCHANGED <<remote, remote_flood, db, db0, requested, force_refresh,
                   telegram_batch_size, client_batch_size, cached_range, gaps,
                   covered, segments, segi, iter, batch, final, cache_offset,
                   cache_rows, client_buffer, out, produced, listing, err, prev>>
    /\ UNCHANGED othervars

\* for msg in batch: if msg.media_path: msg.media_uuid = store_media_with_uuid(...)
\* (store_media_with_uuid ends with session.commit())
SaveMedia ==
    /\ pc = "save_media"
    /\ savek <= Len(batch)
    /\ LET r == store_media_with_uuid(sess, batch[savek].message_id,
                                      batch[savek].media_path)
       IN /\ sess' = r.sess
          /\ db' = commit(db, r.sess)
          /\ batch' = [batch EXCEPT ![savek].media_uuid = r.uuid]
    /\ savek' = NextMedia(batch, savek + 1)
    /\ UNCHANGED <<remote, remote_flood, db0, db_batch, pc, requested, force_refresh,
                   telegram_batch_size, client_batch_size, cached_range, gaps,
                   covered, segments, segi, iter, final, cache_offset,
                   cache_rows, client_buffer, out, produced, listing, err, prev>>
    /\ UNCHANGED othervars

\* the batch is handed on with its commit still to come
SaveCommit_deferred ==
    /\ pc = "save_media"
    /\ savek > Len(batch)
    /\ pc' = "deliver"
    /\ UNCHANGED <<remote, remote_flood, db, sess, db0, db_batch, requested, force_refresh,
                   telegram_batch_size, client_batch_size, cached_range, gaps,
                   covered, segments, segi, iter, batch, final, savek,
                   cache_offset, cache_rows, client_buffer, out, produced, listing, err,
                   prev>>
    /\ UNCHANGED othervars

\* session.commit() of the batch
SaveCommit ==
    /\ pc = "save_media"
    /\ savek > Len(batch)
    /\ db' = commit(db, sess)
    /\ pc' = "deliver"
    /\ UNCHANGED <<remote, remote_flood, sess, db0, db_batch, requested, force_refresh,
                   telegram_batch_size, client_batch_size, cached_range, gaps,
                   covered, segments, segi, iter, batch, final, savek,
                   cache_offset, cache_rows, client_buffer, out, produced, listing, err,
                   prev>>
    /\ UNCHANGED othervars

\* except Exception: session.rollback(); raise -- the upsert, a
\* store_media_with_uuid or the commit raised
StorageFailure ==
    /\ pc \in {"save_upsert", "save_media"}
    /\ sess' = rollback(db, sess)
    /\ pc' = "error"
    /\ err' = Error("StorageError", 0)
    /\ UNCHANGED <<remote, remote_flood, db, db0, db_batch, requested, force_refresh,
                   telegram_batch_size, client_batch_size, cached_range, gaps,
                   covered, segments, segi, iter, batch, final, savek,
                   cache_offset, cache_rows, client_buffer, out, produced, listing, prev>>
    /\ UNCHANGED othervars

\* yield batch: the committed batch reaches stream_messages_with_cache, which
\* appends its items to client_buffer
Deliver ==
    /\ pc = "deliver"
    /\ client_buffer' = client_buffer \o [i \in 1..Len(batch) |-> telegram_item(batch[i])]
    /\ produced' = produced \o [i \in 1..Len(batch) |-> telegram_item(batch[i])]
    /\ batch' = <<>>
    /\ db_batch' = db
    /\ pc' = "drain"
    /\ UNCHANGED <<remote, remote_flood, db, sess, db0, requested, force_refresh,
                   telegram_batch_size, client_batch_size, cached_range, gaps,
                   covered, segments, segi, iter, final, savek, cache_offset,
                   cache_rows, out, listing, err, prev>>
    /\ UNCHANGED othervars

\* the drain loop over, the walk moves to the next segment whether or not the
\* fetcher of this one has ended
Drain_early ==
    /\ pc = "drain"
    /\ IF Len(client_buffer) >= client_batch_size
       THEN /\ out' = Append(out, first_chunk(client_buffer, client_batch_size))
            /\ client_buffer' = rest_chunk(client_buffer, client_batch_size)
            /\ UNCHANGED <<pc, segi>>
       ELSE /\ pc' = "segments"
            /\ segi' = segi + 1
            /\ UNCHANGED <<out, client_buffer>>
    /\ UNCHANGED <<remote, remote_flood, db, sess, db0, db_batch, requested, force_refresh,
                   telegram_batch_size, client_batch_size, cached_range, gaps,
                   covered, segments, iter, batch, final, savek, cache_offset,
                   cache_rows, produced, listing, err, prev>>
    /\ UNCHANGED othervars

\* while len(client_buffer) >= client_batch_size: yield one chunk; when the
\* loop ends the fetcher resumes (or its segment is over)
Drain ==
    /\ pc = "drain"
    /\ IF Len(client_buffer) >= client_batch_size
       THEN /\ out' = Append(out, first_chunk(client_buffer, client_batch_size))
            /\ client_buffer' = rest_chunk(client_buffer, client_batch_size)
            /\ UNCHANGED <<pc, segi>>
       ELSE /\ IF final
               THEN /\ pc' = "segments"
                    /\ segi' = segi + 1
               ELSE /\ pc' = "telegram"
                    /\ UNCHANGED segi
            /\ UNCHANGED <<out, client_buffer>>
    /\ UNCHANGED <<remote, remote_flood, db, sess, db0, db_batch, requested, force_refresh,
                   telegram_batch_size, client_batch_size, cached_range, gaps,
                   covered, segments, iter, batch, final, savek, cache_offset,
                   cache_rows, produced, listing, err, prev>>
    /\ UNCHANGED othervars

\* the remainder is yielded and the coroutine does not return
Flush_again ==
    /\ pc = "flush"
    /\ IF client_buffer # <<>>
       THEN out' = Append(out, client_buffer)
       ELSE UNCHANGED out
    /\ client_buffer' = <<>>
    /\ UNCHANGED <<remote, remote_flood, db, sess, db0, db_batch, pc, requested, force_refresh,
                   telegram_batch_size, client_batch_size, cached_range, gaps,
                   covered, segments, segi, iter, batch, final, savek,
                   cache_offset, cache_rows, produced, listing, err, prev>>
    /\ UNCHANGED othervars

\* if client_buffer: yield client_buffer -- and the coroutine returns
Flush ==
    /\ pc = "flush"
    /\ IF client_buffer # <<>>
       THEN out' = Append(out, client_buffer)
       ELSE UNCHANGED out
    /\ client_buffer' = <<>>
    /\ pc' = "done"
    /\ UNCHANGED <<remote, remote_flood, db, sess, db0, db_batch, requested, force_refresh,
                   telegram_batch_size, client_batch_size, cached_range, gaps,
                   covered, segments, segi, iter, batch, final, savek,
                   cache_offset, cache_rows, produced, listing, err, prev>>
    /\ UNCHANGED othervars

\* The consumer stops reading: the coroutine stands at a yield (of the cache
\* loop, of the drain loop after a fetched batch, or of the remainder) and is
\* closed there; the inner fetcher, if any, stands at its own yield after the
\* commit and is closed too
ConsumerStops ==
    /\ pc \in {"cache_rows", "drain", "flush"}
    /\ LET buf == IF pc = "cache_rows"
                  THEN Append(client_buffer, cache_item(sess, Head(cache_rows)))
                  ELSE client_buffer
           n == IF pc = "flush" THEN Len(buf) ELSE client_batch_size
       IN /\ buf # <<>>
          /\ Len(buf) >= n
          /\ out' = Append(out, first_chunk(buf, n))
          /\ client_buffer' = rest_chunk(buf, n)
    /\ produced' = IF pc = "cache_rows"
                   THEN Append(produced, cache_item(sess, Head(cache_rows)))
                   ELSE produced
    /\ pc' = "closed"
    /\ UNCHANGED <<remote, remote_flood, db, sess, db0, db_batch, requested, force_refresh,
                   telegram_batch_size, client_batch_size, cached_range, gaps,
                   covered, segments, segi, iter, batch, final, savek,
                   cache_offset, cache_rows, listing, err, prev>>
    /\ UNCHANGED othervars

\* The coroutine is over (exhausted, closed, or ended by an error)
StreamEnd ==
    /\ pc \in {"done", "error", "closed"}
    /\ pc' = "idle"
    /\ prev' = IF pc = "done"
               THEN Some([requested |-> requested, force |-> force_refresh,
                          items |-> IdentSeq(Flatten(out))])
               ELSE None
    /\ remote_flood' = 0
    /\ db0' = db
    /\ db_batch' = db
    /\ ResetSync
    /\ UNCHANGED <<remote, db, sess>>

\* The request is over; the next one starts from the stored state alone
Finish ==
    /\ StreamEnd
    /\ UNCHANGED othervars

\* The remote source loses its messages (set_messages(DIALOG_ID, []) of the tests)
RemoteWipe ==
    /\ pc = "idle"
    /\ remote # {}
    /\ remote' = {}
    /\ prev' = None
    /\ UNCHANGED <<remote_flood, db, sess, db0, db_batch, pc>>
    /\ UNCHANGED syncvars
    /\ UNCHANGED othervars

Next ==
    \/ \E r \in RequestedRanges : \E tbs \in 1..MaxBatch : \E cbs \in 1..MaxBatch :
          \E force \in BOOLEAN : StartSync(r.start, r.end, tbs, cbs, force)
    \/ WalkSegment
    \/ CacheQuery
    \/ CacheRow
    \/ FetchMessage
    \/ ProcessingError
    \/ \E w \in 1..MaxWait : Throttle(w)
    \/ ListingFloodWait
    \/ SaveUpsert
    \/ SaveMedia
    \/ SaveCommit
    \/ StorageFailure
    \/ Deliver
    \/ Drain
    \/ Flush
    \/ ConsumerStops
    \/ Finish
    \/ RemoteWipe

Spec == Init /\ [][Next]_vars

\* ------------------------------------------------ syncs that are driven on
\* The syncs of a conversation whose remote source and storage answer every
\* call and whose consumer asks for the next chunk after each chunk: the
\* coroutine is resumed whenever it can take a step.
SyncStep ==
    \/ WalkSegment
    \/ CacheQuery
    \/ CacheRow
    \/ FetchMessage
    \/ SaveUpsert
    \/ SaveMedia
    \/ SaveCommit
    \/ Deliver
    \/ Drain
    \/ Flush

NextLive ==
    \/ \E r \in RequestedRanges : \E tbs \in 1..MaxBatch : \E cbs \in 1..MaxBatch :
          \E force \in BOOLEAN : StartSync(r.start, r.end, tbs, cbs, force)
    \/ SyncStep
    \/ Finish
    \/ RemoteWipe

SpecLive == Init /\ [][NextLive]_vars /\ WF_vars(SyncStep)

\* ------------------------------------------ syncs one after the other
\* A few non-forced syncs of one conversation, each run to its end, over a time line
\* long enough for two requested ranges with a third strictly between them.
\* Both batch sizes are MaxBatch. completed keeps the requested ranges of the
\* syncs that have ended.
MaxSyncs == 3

CoverageTimes == 0..(2 * MaxTime + 1)

CoverageRanges ==
    {r \in {DateRange(a, b) : a \in CoverageTimes, b \in CoverageTimes} : r.start < r.end}

\* the remote histories: MaxMsgs messages of distinct dates, ids ascending
\* with the date
CoverageRemotes ==
    {{[id |-> i, date |-> f[i]] : i \in 1..MaxMsgs} :
        f \in {g \in [1..MaxMsgs -> CoverageTimes] :
                  \A i \in 1..MaxMsgs : \A j \in 1..MaxMsgs : i < j => g[i] < g[j]}}

InitCoverage ==
    /\ remote \in CoverageRemotes
    /\ remote_flood = 0
    /\ db = EmptyDb
    /\ sess = EmptyDb
    /\ db0 = EmptyDb
    /\ db_batch = EmptyDb
    /\ pc = "idle"
    /\ prev = None
    /\ InitSync
    /\ InitOther

StartCoverageSync(r) ==
    /\ pc = "idle"
    /\ Len(completed) < MaxSyncs
    /\ StreamBegin(r.start, r.end, MaxBatch, MaxBatch, FALSE)
    /\ UNCHANGED othervars

\* the sync has run to its end; its requested range is noted
FinishLogged ==
    /\ pc = "done"
    /\ StreamEnd
    /\ completed' = Append(completed, requested)
    /\ UNCHANGED <<histvars, storevars, qrvars, setvars, dlvars, mergevars>>
    /\ UNCHANGED poolvars

NextCoverage ==
    \/ \E r \in CoverageRanges : StartCoverageSync(r)
    \/ WalkSegment
    \/ CacheQuery
    \/ CacheRow
    \/ FetchMessage
    \/ SaveUpsert
    \/ SaveMedia
    \/ SaveCommit
    \/ Deliver
    \/ Drain
    \/ Flush
    \/ FinishLogged

SpecCoverage == InitCoverage /\ [][NextCoverage]_vars

\* ------------------------------------------- the client pool, in use
\* get_telegram_client and evict_client run as asyncio tasks of one event
\* loop: a task runs until its next await that suspends, so each action below
\* is the code between two such awaits. Taking a free lock does not suspend.
PoolUnchanged ==
    /\ UNCHANGED <<remote, remote_flood, db, sess, db0, db_batch, pc, prev>>
    /\ UNCHANGED syncvars
    /\ UNCHANGED <<histvars, storevars, qrvars, setvars, dlvars, mergevars, covvars>>

InitPoolSpec ==
    /\ remote = {}
    /\ remote_flood = 0
    /\ db = EmptyDb
    /\ sess = EmptyDb
    /\ db0 = EmptyDb
    /\ db_batch = EmptyDb
    /\ prev = None
    /\ pc = "pool"
    /\ InitSync
    /\ InitOther

\* async with lock: the code from the acquisition of the per-user lock to the
\* first await inside it. A pooled client that is connected is asked whether
\* it is still authorized; otherwise a new TelegramClient is created and
\* client.connect() awaited.
EnterLock(c, username, lock) ==
    /\ locks_held' = locks_held \cup {lock}
    /\ IF pool_clients[username] # 0 /\ tclients[pool_clients[username]]
       THEN /\ callers' = [callers EXCEPT ![c] =
                   [pc |-> "check_pooled", username |-> username, lock |-> lock,
                    client |-> pool_clients[username]]]
            /\ UNCHANGED tclients
       ELSE /\ Len(tclients) < MaxClients
            /\ tclients' = Append(tclients, FALSE)
            /\ callers' = [callers EXCEPT ![c] =
                   [pc |-> "connect", username |-> username, lock |-> lock,
                    client |-> Len(tclients) + 1]]
    /\ UNCHANGED pool_clients

\* get_telegram_client(username): the lock of the user is looked up under
\* _pool_lock, created when there is none, and taken when it is free
GetTelegramClient(c, username) ==
    /\ pc = "pool"
    /\ callers[c].pc = "idle"
    /\ IF client_locks[username] = 0
       THEN /\ nlocks < MaxLocks
            /\ nlocks' = nlocks + 1
            /\ client_locks' = [client_locks EXCEPT ![username] = nlocks + 1]
            /\ EnterLock(c, username, nlocks + 1)
       ELSE /\ UNCHANGED <<nlocks, client_locks>>
            /\ IF client_locks[username] \in locks_held
               THEN /\ callers' = [callers EXCEPT ![c] =
                           [pc |-> "acquire", username |-> username,
                            lock |-> client_locks[username], client |-> 0]]
                    /\ UNCHANGED <<locks_held, pool_clients, tclients>>
               ELSE EnterLock(c, username, client_locks[username])
    /\ PoolUnchanged

\* the lock the request waits for has been released
AcquireLock(c) ==
    /\ pc = "pool"
    /\ callers[c].pc = "acquire"
    /\ callers[c].lock \notin locks_held
    /\ EnterLock(c, callers[c].username, callers[c].lock)
    /\ UNCHANGED <<nlocks, client_locks>>
    /\ PoolUnchanged

\* the request leaves the lock (return, or an exception that propagates)
Leave(c) ==
    /\ callers' = [callers EXCEPT ![c] = NoCall]
    /\ locks_held' = locks_held \ {callers[c].lock}

\* await client.is_user_authorized() of the pooled client: it is yielded, or
\* its disconnect() is awaited
CheckPooled(c, authorized) ==
    /\ pc = "pool"
    /\ callers[c].pc = "check_pooled"
    /\ callers' = [callers EXCEPT ![c].pc =
                       IF authorized THEN "serving" ELSE "disconnect_pooled"]
    /\ UNCHANGED <<client_locks, locks_held, nlocks, pool_clients, tclients>>
    /\ PoolUnchanged

\* the pooled client is disconnected; del _client_pool[username] (a KeyError
\* when the entry is gone), then a new client is created and connect() awaited
DisconnectPooled(c) ==
    /\ pc = "pool"
    /\ callers[c].pc = "disconnect_pooled"
    /\ IF pool_clients[callers[c].username] = 0
       THEN /\ tclients' = [tclients EXCEPT ![callers[c].client] = FALSE]
            /\ Leave(c)
            /\ UNCHANGED pool_clients
       ELSE /\ Len(tclients) < MaxClients
            /\ tclients' = Append([tclients EXCEPT ![callers[c].client] = FALSE], FALSE)
            /\ pool_clients' = [pool_clients EXCEPT ![callers[c].username] = 0]
            /\ callers' = [callers EXCEPT ![c].pc = "connect",
                                          ![c].client = Len(tclients) + 1]
            /\ UNCHANGED locks_held
    /\ UNCHANGED <<client_locks, nlocks>>
    /\ PoolUnchanged

\* await client.connect(): connected, or an exception that propagates
Connect(c, connected) ==
    /\ pc = "pool"
    /\ callers[c].pc = "connect"
    /\ IF connected
       THEN /\ tclients' = [tclients EXCEPT ![callers[c].client] = TRUE]
            /\ callers' = [callers EXCEPT ![c].pc = "authorize"]
            /\ UNCHANGED locks_held
       ELSE /\ Leave(c)
            /\ UNCHANGED tclients
    /\ UNCHANGED <<client_locks, nlocks, pool_clients>>
    /\ PoolUnchanged

\* await client.is_user_authorized() of the new client: it joins the pool and
\* is yielded, or HTTPException(401) is raised and disconnect() awaited
Authorize(c, authorized) ==
    /\ pc = "pool"
    /\ callers[c].pc = "authorize"
    /\ IF authorized
       THEN /\ pool_clients' = [pool_clients EXCEPT ![callers[c].username] = callers[c].client]
            /\ callers' = [callers EXCEPT ![c].pc = "serving"]
       ELSE /\ callers' = [callers EXCEPT ![c].pc = "disconnect_new"]
            /\ UNCHANGED pool_clients
    /\ UNCHANGED <<client_locks, locks_held, nlocks, tclients>>
    /\ PoolUnchanged

\* except Exception: await client.disconnect(); raise
DisconnectNew(c) ==
    /\ pc = "pool"
    /\ callers[c].pc = "disconnect_new"
    /\ tclients' = [tclients EXCEPT ![callers[c].client] = FALSE]
    /\ Leave(c)
    /\ UNCHANGED <<client_locks, nlocks, pool_clients>>
    /\ PoolUnchanged

\* the request that was given the client is over: the generator returns
RequestOver(c) ==
    /\ pc = "pool"
    /\ callers[c].pc = "serving"
    /\ Leave(c)
    /\ UNCHANGED <<client_locks, nlocks, pool_clients, tclients>>
    /\ PoolUnchanged

\* evict_client(username): under _pool_lock the client and the lock of the
\* user are popped; the client is then disconnected
EvictClient(username) ==
    /\ pc = "pool"
    /\ pool_clients' = [pool_clients EXCEPT ![username] = 0]
    /\ client_locks' = [client_locks EXCEPT ![username] = 0]
    /\ tclients' = IF pool_clients[username] # 0
                   THEN [tclients EXCEPT ![pool_clients[username]] = FALSE]
                   ELSE tclients
    /\ UNCHANGED <<locks_held, nlocks, callers>>
    /\ PoolUnchanged

NextPool ==
    \/ \E c \in Callers : \E username \in Users : GetTelegramClient(c, username)
    \/ \E c \in Callers : AcquireLock(c)
    \/ \E c \in Callers : \E authorized \in BOOLEAN : CheckPooled(c, authorized)
    \/ \E c \in Callers : DisconnectPooled(c)
    \/ \E c \in Callers : \E connected \in BOOLEAN : Connect(c, connected)
    \/ \E c \in Callers : \E authorized \in BOOLEAN : Authorize(c, authorized)
    \/ \E c \in Callers : DisconnectNew(c)
    \/ \E c \in Callers : RequestOver(c)
    \/ \E username \in Users : EvictClient(username)

SpecPool == InitPoolSpec /\ [][NextPool]_vars

\* ------------------------------------------------ the range algebra, applied
InitAlgebra ==
    /\ remote = {}
    /\ remote_flood = 0
    /\ db = EmptyDb
    /\ sess = EmptyDb
    /\ db0 = EmptyDb
    /\ db_batch = EmptyDb
    /\ prev = None
    /\ pc = "alg_input"
    /\ requested \in AlgebraRequested
    /\ cached_range \in CachedRanges
    /\ force_refresh = FALSE
    /\ telegram_batch_size = 1
    /\ client_batch_size = 1
    /\ gaps = <<>>
    /\ covered = None
    /\ segments = <<>>
    /\ segi = 0
    /\ iter = <<>>
    /\ batch = <<>>
    /\ final = FALSE
    /\ savek = 0
    /\ cache_offset = 0
    /\ cache_rows = <<>>
    /\ client_buffer = <<>>
    /\ out = <<>>
    /\ produced = <<>>
    /\ listing = <<>>
    /\ err = None
    /\ InitOther

AlgUnchanged ==
    /\ UNCHANGED <<remote, remote_flood, db, sess, db0, db_batch, requested, force_refresh,
                   telegram_batch_size, client_batch_size, cached_range, segi, iter,
                   batch, final, savek, cache_offset, cache_rows, client_buffer,
                   out, produced, listing, err, prev>>
    /\ UNCHANGED othervars

ApplyFindGaps ==
    /\ pc = "alg_input"
    /\ gaps' = find_gaps(requested, cached_range)
    /\ pc' = "alg_gaps"
    /\ UNCHANGED <<covered, segments>>
    /\ AlgUnchanged

ApplyFindCoveredRange ==
    /\ pc = "alg_gaps"
    /\ covered' = find_covered_range(requested, cached_range)
    /\ pc' = "alg_covered"
    /\ UNCHANGED <<gaps, segments>>
    /\ AlgUnchanged

ApplyBuildTimeline ==
    /\ pc = "alg_covered"
    /\ segments' = build_timeline(covered, gaps)
    /\ pc' = "alg_timeline"
    /\ UNCHANGED <<gaps, covered>>
    /\ AlgUnchanged

NextAlgebra ==
    \/ ApplyFindGaps
    \/ ApplyFindCoveredRange
    \/ ApplyBuildTimeline

SpecAlgebra == InitAlgebra /\ [][NextAlgebra]_vars

\* -------------------------------------------- merge_overlapping_ranges
\* the lists of ranges merge_overlapping_ranges is applied to: at most
\* MaxRanges ranges with start <= end
MaxRanges == 3

MergeRanges ==
    {r \in {DateRange(a, b) : a \in AlgebraTimes, b \in AlgebraTimes} : r.start <= r.end}

RangeLists == UNION {[1..n -> MergeRanges] : n \in 0..MaxRanges}

\* the fold that merges only a range that starts before the last one ends
RECURSIVE merge_fold_strict(_, _)
merge_fold_strict(merged, rest) ==
    IF rest = <<>> THEN merged
    ELSE LET last == merged[Len(merged)]
             current == Head(rest)
         IN IF current.start < last.end
            THEN merge_fold_strict([merged EXCEPT ![Len(merged)] =
                                       DateRange(last.start, Max(last.end, current.end))],
                                   Tail(rest))
            ELSE merge_fold_strict(Append(merged, current), Tail(rest))

\* for current in sorted_ranges[1:]: merge into merged[-1] or append
RECURSIVE merge_fold(_, _)
merge_fold(merged, rest) ==
    IF rest = <<>> THEN merged
    ELSE LET last == merged[Len(merged)]
             current == Head(rest)
         IN IF current.start <= last.end
            THEN merge_fold([merged EXCEPT ![Len(merged)] =
                                DateRange(last.start, Max(last.end, current.end))],
                            Tail(rest))
            ELSE merge_fold(Append(merged, current), Tail(rest))

\* scraper.merge_overlapping_ranges
merge_overlapping_ranges(ranges) ==
    IF ranges = <<>> THEN <<>>
    ELSE LET sorted_ranges == SortByStart(ranges)
         IN merge_fold(<<Head(sorted_ranges)>>, Tail(sorted_ranges))

InitMerge ==
    /\ remote = {}
    /\ remote_flood = 0
    /\ db = EmptyDb
    /\ sess = EmptyDb
    /\ db0 = EmptyDb
    /\ db_batch = EmptyDb
    /\ prev = None
    /\ pc = "merge"
    /\ InitSync
    /\ InitOther

ApplyMerge(ranges) ==
    /\ pc = "merge"
    /\ merge_call' = Some([ranges |-> ranges, result |-> merge_overlapping_ranges(ranges)])
    /\ UNCHANGED <<remote, remote_flood, db, sess, db0, db_batch, pc, prev>>
    /\ UNCHANGED syncvars
    /\ UNCHANGED <<histvars, storevars, qrvars, setvars, dlvars>>
    /\ UNCHANGED covvars
    /\ UNCHANGED poolvars

NextMerge == \E ranges \in RangeLists : ApplyMerge(ranges)

SpecMerge == InitMerge /\ [][NextMerge]_vars

\* ------------------------------------------------- the history endpoint
\* A date string of a query: text in the format "%Y-%m-%d %H:%M:%S" (it
\* denotes the second t), text in the format "%Y-%m-%d" (it denotes the
\* midnight that begins the day), or text in neither format. The time line
\* holds the midnights 0 and MaxTime.
DateStrings ==
    {[fmt |-> "%Y-%m-%d %H:%M:%S", t |-> t] : t \in Times}
        \cup {[fmt |-> "%Y-%m-%d", day |-> d] : d \in {0, 1}}
        \cup {[fmt |-> "other"]}

\* history.parse_date: Some(datetime), or None where it raises
\* HTTPException(400)
parse_date(date_str) ==
    IF date_str.fmt = "%Y-%m-%d %H:%M:%S" THEN Some(date_str.t)
    ELSE IF date_str.fmt = "%Y-%m-%d" THEN Some(date_str.day * MaxTime)
    ELSE None

\* datetime(2013, 1, 1): before every message
DefaultStart == Some(0)

\* datetime.now(timezone.utc): no message is later
DefaultEnd == Some(MaxTime)

\* client_batch_size of the request that is not streamed
NonStreamingBatch == 1000

\* the test of get_history that lets equal dates through
valid_range_weak(start_dt, end_dt) == ~(start_dt > end_dt)

\* get_history: if start_dt >= end_dt: raise HTTPException(400)
valid_range(start_dt, end_dt) == ~(start_dt >= end_dt)

\* The queries: start_date and end_date omitted or any text, chunk_size >= 0
\* (the framework rejects the others), force_refresh, and reverse, which the
\* tests send and get_history does not declare
Queries ==
    [start_date : {None} \cup {Some(d) : d \in DateStrings},
     end_date : {None} \cup {Some(d) : d \in DateStrings},
     chunk_size : 0..MaxBatch,
     force_refresh : BOOLEAN,
     reverse : {None, Some(TRUE), Some(FALSE)}]

InitHistory ==
    /\ remote \in HistoryRemotes
    /\ remote_flood = 0
    /\ db = EmptyDb
    /\ sess = EmptyDb
    /\ db0 = EmptyDb
    /\ db_batch = EmptyDb
    /\ pc = "idle"
    /\ prev = None
    /\ InitSync
    /\ InitOther

\* get_history up to the opened storage: the dates are parsed and compared;
\* a bad request is answered 400 and the handler is over
GetHistory(q) ==
    /\ pc = "idle"
    /\ remote_calls' = {}
    /\ LET start_dt == IF q.start_date # None THEN parse_date(q.start_date[1])
                       ELSE DefaultStart
           end_dt == IF q.end_date # None THEN parse_date(q.end_date[1])
                     ELSE DefaultEnd
       IN IF start_dt = None \/ end_dt = None
          THEN /\ status' = 400
               /\ detail' = "Invalid date format"
               /\ storage_open' = FALSE
               /\ UNCHANGED <<pc, requested, query>>
          ELSE IF ~valid_range(start_dt[1], end_dt[1])
          THEN /\ status' = 400
               /\ detail' = "start_date must be before end_date"
               /\ storage_open' = FALSE
               /\ UNCHANGED <<pc, requested, query>>
          ELSE /\ status' = 0
               /\ detail' = ""
               /\ storage_open' = TRUE
               /\ requested' = DateRange(start_dt[1], end_dt[1])
               /\ query' = Some([chunk_size |-> q.chunk_size,
                                 force_refresh |-> q.force_refresh,
                                 reverse |-> q.reverse])
               /\ pc' = "channel_info"
    /\ UNCHANGED <<remote, remote_flood, db, sess, db0, db_batch, force_refresh,
                   telegram_batch_size, client_batch_size, cached_range, gaps,
                   covered, segments, segi, iter, batch, final, savek,
                   cache_offset, cache_rows, client_buffer, out, produced, listing,
                   err, prev, store_call>>
    /\ UNCHANGED qrvars
    /\ UNCHANGED setvars
    /\ UNCHANGED dlvars
    /\ UNCHANGED mergevars
    /\ UNCHANGED covvars
    /\ UNCHANGED poolvars

\* get_history from the channel info on: get_entity and get_me (a failure is
\* only logged), then the stream begins; tbs is _config.telegram_batch_size.
\* A streamed response has its status before the stream runs.
ChannelInfo(tbs) ==
    /\ pc = "channel_info"
    /\ remote_calls' = {"get_entity", "get_me"}
    /\ StreamBegin(requested.start, requested.end, tbs,
                   IF query[1].chunk_size = 0 THEN NonStreamingBatch
                   ELSE query[1].chunk_size,
                   query[1].force_refresh)
    /\ status' = IF query[1].chunk_size = 0 THEN 0 ELSE 200
    /\ UNCHANGED <<query, detail, storage_open, store_call>>
    /\ UNCHANGED qrvars
    /\ UNCHANGED setvars
    /\ UNCHANGED dlvars
    /\ UNCHANGED mergevars
    /\ UNCHANGED covvars
    /\ UNCHANGED poolvars

\* The response is over: the request that is not streamed answers 200 with
\* all the messages, or 500 when the sync raised; the streamed one closes the
\* storage when its stream ends
Respond ==
    /\ StreamEnd
    /\ status' = IF query[1].chunk_size = 0
                 THEN (IF pc = "done" THEN 200 ELSE 500)
                 ELSE status
    /\ detail' = IF query[1].chunk_size = 0 /\ pc = "error"
                 THEN "Internal server error" ELSE detail
    /\ storage_open' = IF query[1].chunk_size = 0 THEN storage_open ELSE FALSE
    /\ query' = None
    /\ UNCHANGED <<remote_calls, store_call>>
    /\ UNCHANGED qrvars
    /\ UNCHANGED setvars
    /\ UNCHANGED dlvars
    /\ UNCHANGED mergevars
    /\ UNCHANGED covvars
    /\ UNCHANGED poolvars

\* the consumer of a streamed response disconnects: event_stream is closed at
\* its yield, and with it the sync it iterates
Disconnect ==
    /\ query # None
    /\ query[1].chunk_size # 0
    /\ ConsumerStops

NextHistory ==
    \/ \E q \in Queries : GetHistory(q)
    \/ \E tbs \in 1..MaxBatch : ChannelInfo(tbs)
    \/ WalkSegment
    \/ CacheQuery
    \/ CacheRow
    \/ FetchMessage
    \/ ProcessingError
    \/ \E w \in 1..MaxWait : Throttle(w)
    \/ ListingFloodWait
    \/ SaveUpsert
    \/ SaveMedia
    \/ SaveCommit
    \/ StorageFailure
    \/ Deliver
    \/ Drain
    \/ Flush
    \/ Disconnect
    \/ Respond

SpecHistory == InitHistory /\ [][NextHistory]_vars

\* C40: when no request is being served, the storage the last request opened
\* has been closed.
C40_StorageClosed == pc = "idle" => ~storage_open

\* what holds: the end of a streamed request (stream complete, consumer
\* disconnected, or sync ended by an error) closes the storage
C40_StreamedStep ==
    (pc # "idle" /\ pc' = "idle" /\ query # None /\ query[1].chunk_size # 0) =>
        ~storage_open'

C40_StreamedStorageClosed == [][C40_StreamedStep]_vars

\* ------------------------------------------------------ QR authentication
\* api/auth.py: the handlers and the background waiter of each QR session.
\* A token is the index of its _QRSession in qr_objects (uuid4 never repeats
\* a token); username 0 is the empty string.
MaxTokens == 2

MaxRefresh == 1

Tokens == 1..MaxTokens

TerminalStatus == {"success", "expired", "error"}

\* _QRSession.__init__; task is where the background waiter stands
\* (wait_scan, wait_password, done, cancelled), future is _password_future
\* (none, pending, set, cancelled), qr_url counts the recreations
QRSession(username) ==
    [username |-> username, status |-> "pending", task |-> "wait_scan",
     future |-> "none", connected |-> TRUE, qr_url |-> 0]

\* the cleanup after a response: a terminal status pops the token
pop_terminal_kept(sessions, token, st) == sessions

pop_terminal(sessions, token, st) ==
    IF st \in TerminalStatus THEN sessions \ {token} ELSE sessions

Response(op, token, code, st) ==
    Some([op |-> op, token |-> token, code |-> code, status |-> st])

InitQR ==
    /\ remote = {}
    /\ remote_flood = 0
    /\ db = EmptyDb
    /\ sess = EmptyDb
    /\ db0 = EmptyDb
    /\ db_batch = EmptyDb
    /\ prev = None
    /\ pc = "qr"
    /\ InitSync
    /\ query = None
    /\ detail = ""
    /\ status = 0
    /\ storage_open = FALSE
    /\ remote_calls = {}
    /\ store_call = None
    /\ qr_objects = <<>>
    /\ qr_sessions = {}
    /\ session_files \in SUBSET Users
    /\ client_pool \in SUBSET session_files
    /\ twofa_req = {}
    /\ qr_resp = None
    /\ qr_terminal = {}
    /\ settings = DefaultSettings
    /\ settings_saved = TRUE
    /\ patch_call = None
    /\ download = None
    /\ merge_call = None
    /\ completed = <<>>
    /\ InitPool

QRUnchanged ==
    /\ UNCHANGED <<remote, remote_flood, db, sess, db0, db_batch, pc, prev>>
    /\ UNCHANGED syncvars
    /\ UNCHANGED histvars
    /\ UNCHANGED storevars
    /\ UNCHANGED setvars
    /\ UNCHANGED dlvars
    /\ UNCHANGED mergevars
    /\ UNCHANGED covvars
    /\ UNCHANGED poolvars

\* the answer of start_qr_auth with the request it answers; existed is
\* session_file.exists() as the handler read it
StartResponse(username, force, existed, token, code) ==
    Some([op |-> "start_qr_auth", token |-> token, code |-> code, status |-> "",
          username |-> username, force |-> force, existed |-> existed])

\* auth_utils.evict_client(username)
evict_client_kept(pool, username) == pool

evict_client(pool, username) == pool \ {username}

\* start_qr_auth(body); ok: client.connect() and client.qr_login() succeed
StartQrAuth(username, force, ok) ==
    LET existed == username \in session_files IN
    /\ pc = "qr"
    /\ IF username = 0
       THEN /\ qr_resp' = StartResponse(username, force, FALSE, 0, 400)
            /\ UNCHANGED <<qr_objects, qr_sessions, session_files, client_pool>>
       ELSE IF existed /\ ~force
       THEN /\ qr_resp' = StartResponse(username, force, existed, 0, 409)
            /\ UNCHANGED <<qr_objects, qr_sessions, session_files, client_pool>>
       ELSE /\ client_pool' = IF existed THEN evict_client(client_pool, username)
                              ELSE client_pool
            /\ session_files' = session_files \ {username}
            /\ IF ~ok
               THEN /\ qr_resp' = StartResponse(username, force, existed, 0, 502)
                    /\ UNCHANGED <<qr_objects, qr_sessions>>
               ELSE /\ Len(qr_objects) < MaxTokens
                    /\ qr_objects' = Append(qr_objects, QRSession(username))
                    /\ qr_sessions' = qr_sessions \cup {Len(qr_objects) + 1}
                    /\ qr_resp' = StartResponse(username, force, existed,
                                                Len(qr_objects) + 1, 200)
    /\ UNCHANGED <<twofa_req, qr_terminal>>
    /\ QRUnchanged

\* a step of _wait_for_qr_scan that leaves the session object as obj
WaiterStep(token, obj) ==
    /\ qr_objects' = [qr_objects EXCEPT ![token] = obj]
    /\ qr_resp' = None
    /\ UNCHANGED <<qr_sessions, client_pool, twofa_req, qr_terminal>>
    /\ QRUnchanged

\* the waiter ends in a terminal status and leaves the client connected
Finished_connected(obj, st) ==
    [obj EXCEPT !.status = st, !.task = "done"]

\* the waiter ends in a terminal status: finally disconnects the client
Finished(obj, st) ==
    [obj EXCEPT !.status = st, !.task = "done", !.connected = FALSE]

\* qr_login.wait() returns: the code was scanned, no 2FA
WaiterScanned(token) ==
    /\ pc = "qr"
    /\ token \in 1..Len(qr_objects)
    /\ qr_objects[token].task = "wait_scan"
    /\ session_files' = session_files \cup {qr_objects[token].username}
    /\ WaiterStep(token, Finished(qr_objects[token], "success"))

\* asyncio.TimeoutError: the token is recreated and qr_url updated
WaiterRefresh(token) ==
    /\ pc = "qr"
    /\ token \in 1..Len(qr_objects)
    /\ qr_objects[token].task = "wait_scan"
    /\ qr_objects[token].qr_url < MaxRefresh
    /\ UNCHANGED session_files
    /\ WaiterStep(token, [qr_objects[token] EXCEPT !.qr_url = @ + 1])

\* qr_login.recreate() or qr_login.wait() raises
WaiterError(token) ==
    /\ pc = "qr"
    /\ token \in 1..Len(qr_objects)
    /\ qr_objects[token].task = "wait_scan"
    /\ UNCHANGED session_files
    /\ WaiterStep(token, Finished(qr_objects[token], "error"))

\* remaining <= 0: the overall timeout
WaiterDeadline(token) ==
    /\ pc = "qr"
    /\ token \in 1..Len(qr_objects)
    /\ qr_objects[token].task = "wait_scan"
    /\ UNCHANGED session_files
    /\ WaiterStep(token, Finished(qr_objects[token], "expired"))

\* SessionPasswordNeededError: the waiter creates _password_future and waits
WaiterPasswordNeeded(token) ==
    /\ pc = "qr"
    /\ token \in 1..Len(qr_objects)
    /\ qr_objects[token].task = "wait_scan"
    /\ UNCHANGED session_files
    /\ WaiterStep(token, [qr_objects[token] EXCEPT !.status = "password_required",
                                                   !.task = "wait_password",
                                                   !.future = "pending"])

\* the password arrived: client.sign_in(password) succeeds or raises
WaiterSignIn(token, ok) ==
    /\ pc = "qr"
    /\ token \in 1..Len(qr_objects)
    /\ qr_objects[token].task = "wait_password"
    /\ qr_objects[token].future = "set"
    /\ session_files' = IF ok THEN session_files \cup {qr_objects[token].username}
                        ELSE session_files
    /\ WaiterStep(token, Finished(qr_objects[token], IF ok THEN "success" ELSE "error"))

\* asyncio.TimeoutError while waiting for the password
WaiterPasswordTimeout(token) ==
    /\ pc = "qr"
    /\ token \in 1..Len(qr_objects)
    /\ qr_objects[token].task = "wait_password"
    /\ qr_objects[token].future = "pending"
    /\ UNCHANGED session_files
    /\ WaiterStep(token, [Finished(qr_objects[token], "expired") EXCEPT
                              !.future = "cancelled"])

\* get_qr_status(token)
GetQrStatus(token) ==
    /\ pc = "qr"
    /\ IF token \notin qr_sessions
       THEN /\ qr_resp' = Response("get_qr_status", token, 404, "")
            /\ UNCHANGED <<qr_sessions, qr_terminal>>
       ELSE /\ qr_resp' = Response("get_qr_status", token, 200, qr_objects[token].status)
            /\ qr_sessions' = pop_terminal(qr_sessions, token, qr_objects[token].status)
            /\ qr_terminal' = IF qr_objects[token].status \in TerminalStatus
                              THEN qr_terminal \cup {token} ELSE qr_terminal
    /\ UNCHANGED <<qr_objects, session_files, client_pool, twofa_req>>
    /\ QRUnchanged

\* the two 409 tests of submit_2fa_password, negated
accepts_password_again(obj) == obj.status = "password_required"

accepts_password(obj) ==
    /\ obj.status = "password_required"
    /\ obj.future = "pending"

\* submit_2fa_password(token, body) up to its sleep loop
SubmitPassword(token) ==
    /\ pc = "qr"
    /\ IF token \notin qr_sessions
       THEN /\ qr_resp' = Response("submit_2fa_password", token, 404, "")
            /\ UNCHANGED <<qr_objects, twofa_req>>
       ELSE IF ~accepts_password(qr_objects[token])
       THEN /\ qr_resp' = Response("submit_2fa_password", token, 409, "")
            /\ UNCHANGED <<qr_objects, twofa_req>>
       ELSE /\ qr_objects' = [qr_objects EXCEPT ![token].future = "set"]
            /\ twofa_req' = twofa_req \cup {token}
            /\ qr_resp' = None
    /\ UNCHANGED <<qr_sessions, session_files, client_pool, qr_terminal>>
    /\ QRUnchanged

\* submit_2fa_password after its sleep loop (the status changed, or 3 s went
\* by): the response, and the cleanup of a terminal status
PasswordResponse(token) ==
    /\ pc = "qr"
    /\ token \in twofa_req
    /\ twofa_req' = twofa_req \ {token}
    /\ qr_resp' = Response("submit_2fa_password", token, 200, qr_objects[token].status)
    /\ qr_sessions' = pop_terminal(qr_sessions, token, qr_objects[token].status)
    /\ UNCHANGED <<qr_objects, session_files, client_pool, qr_terminal>>
    /\ QRUnchanged

\* _QRSession.cleanup(): a waiter that is not done is cancelled and awaited
\* (the password future it waits on is cancelled with it), the client is
\* disconnected
cleanup_no_cancel(obj) == [obj EXCEPT !.connected = FALSE]

cleanup(obj) ==
    [obj EXCEPT !.task = IF @ = "done" THEN "done" ELSE "cancelled",
                !.future = IF @ = "pending" THEN "cancelled" ELSE @,
                !.connected = FALSE]

\* cancel_qr_auth(token): the session is popped, its waiter cancelled (the
\* status is not touched), its client disconnected, and the session file
\* removed unless the login succeeded
CancelQrAuth(token) ==
    /\ pc = "qr"
    /\ IF token \notin qr_sessions
       THEN /\ qr_resp' = Response("cancel_qr_auth", token, 404, "")
            /\ UNCHANGED <<qr_objects, qr_sessions, session_files>>
       ELSE /\ qr_sessions' = qr_sessions \ {token}
            /\ qr_objects' = [qr_objects EXCEPT ![token] = cleanup(@)]
            /\ session_files' = IF qr_objects[token].status # "success"
                                THEN session_files \ {qr_objects[token].username}
                                ELSE session_files
            /\ qr_resp' = Response("cancel_qr_auth", token, 200, "")
    /\ UNCHANGED <<client_pool, twofa_req, qr_terminal>>
    /\ QRUnchanged

NextQR ==
    \/ \E username \in {0} \cup Users : \E force \in BOOLEAN : \E ok \in BOOLEAN :
          StartQrAuth(username, force, ok)
    \/ \E token \in Tokens : WaiterScanned(token)
    \/ \E token \in Tokens : WaiterRefresh(token)
    \/ \E token \in Tokens : WaiterError(token)
    \/ \E token \in Tokens : WaiterDeadline(token)
    \/ \E token \in Tokens : WaiterPasswordNeeded(token)
    \/ \E token \in Tokens : \E ok \in BOOLEAN : WaiterSignIn(token, ok)
    \/ \E token \in Tokens : WaiterPasswordTimeout(token)
    \/ \E token \in Tokens : GetQrStatus(token)
    \/ \E token \in Tokens : SubmitPassword(token)
    \/ \E token \in Tokens : PasswordResponse(token)
    \/ \E token \in Tokens : CancelQrAuth(token)

SpecQR == InitQR /\ [][NextQR]_vars

\* C39: a QR session starts pending; its status changes only from pending to
\* success, expired, error or password_required and from password_required
\* to success, expired or error, so a terminal status is never left; and a
\* waiter that has run to its end has left a terminal status and a
\* disconnected client.
StatusMoves ==
    {<<"pending", st>> : st \in TerminalStatus \cup {"password_required"}}
        \cup {<<"password_required", st>> : st \in TerminalStatus}

C39_Step ==
    /\ Len(qr_objects') >= Len(qr_objects)
    /\ \A token \in 1..Len(qr_objects) :
          \/ qr_objects'[token].status = qr_objects[token].status
          \/ <<qr_objects[token].status, qr_objects'[token].status>> \in StatusMoves
    /\ \A token \in (Len(qr_objects) + 1)..Len(qr_objects') :
          qr_objects'[token].status = "pending"
    /\ \A token \in 1..Len(qr_objects') :
          qr_objects'[token].task = "done" =>
             /\ qr_objects'[token].status \in TerminalStatus
             /\ ~qr_objects'[token].connected

C39_StatusTransitions == [][C39_Step]_vars

\* a session went from pending through password_required to success, and
\* its waiter has ended with the client disconnected
C39_Witness ==
    \E token \in 1..Len(qr_objects) :
        /\ qr_objects[token].status = "success"
        /\ qr_objects[token].future = "set"
        /\ qr_objects[token].task = "done"
        /\ ~qr_objects[token].connected

\* C23: start_qr_auth for a username whose session file exists is answered
\* 409 when force is false, and then no session object is created and the
\* table, the file and the client pool are as before; with force the user's
\* pooled client is evicted and the file removed, whether the new session is
\* then created (200, the session registered under a new token) or the
\* connection fails (502).
C23_Step ==
    (qr_resp' # None /\ qr_resp'[1].op = "start_qr_auth") =>
       LET r == qr_resp'[1] IN
       /\ r.existed = (r.username \in session_files)
       /\ r.code = 409 <=> (r.existed /\ ~r.force)
       /\ r.code = 409 => /\ qr_objects' = qr_objects
                          /\ qr_sessions' = qr_sessions
                          /\ session_files' = session_files
                          /\ client_pool' = client_pool
       /\ (r.existed /\ r.force) =>
             /\ r.code \in {200, 502}
             /\ r.username \notin client_pool'
             /\ r.username \notin session_files'
             /\ r.code = 200 =>
                   /\ Len(qr_objects') = Len(qr_objects) + 1
                   /\ r.token = Len(qr_objects')
                   /\ qr_objects'[r.token] = QRSession(r.username)
                   /\ qr_sessions' = qr_sessions \cup {r.token}

C23_ExistingSessionFile == [][C23_Step]_vars

\* a forced start for a user whose session file existed: answered 200, the
\* file and the pooled client gone, the new session pending in the table
C23_Witness ==
    /\ qr_resp # None
    /\ qr_resp[1].op = "start_qr_auth"
    /\ qr_resp[1].existed
    /\ qr_resp[1].force
    /\ qr_resp[1].code = 200
    /\ qr_resp[1].token \in qr_sessions
    /\ qr_resp[1].username \notin session_files \cup client_pool

\* C22: a cancel_qr_auth answered 200 takes the token out of the table and
\* leaves its waiter not running with the status as it was; a token out of
\* the table never comes back and is polled 404; a waiter that is not
\* running never changes the status of its session; a cancel_qr_auth for a
\* token not in the table is answered 404 and changes no session, nor the
\* table.
C22_Step ==
    /\ \A t \in 1..Len(qr_objects) :
          /\ t \notin qr_sessions => t \notin qr_sessions'
          /\ qr_objects[t].task \in {"done", "cancelled"} =>
                /\ qr_objects'[t].task = qr_objects[t].task
                /\ qr_objects'[t].status = qr_objects[t].status
    /\ (qr_resp' # None /\ qr_resp'[1].op = "get_qr_status"
           /\ qr_resp'[1].token \notin qr_sessions) => qr_resp'[1].code = 404
    /\ (qr_resp' # None /\ qr_resp'[1].op = "cancel_qr_auth") =>
         LET r == qr_resp'[1] IN
         /\ r.code \in {200, 404}
         /\ r.code = 404 <=> r.token \notin qr_sessions
         /\ r.code = 404 => /\ qr_objects' = qr_objects
                            /\ qr_sessions' = qr_sessions
                            /\ session_files' = session_files
         /\ r.code = 200 => /\ r.token \notin qr_sessions'
                            /\ qr_objects'[r.token].task \in {"done", "cancelled"}
                            /\ qr_objects'[r.token].status = qr_objects[r.token].status

C22_CancelStopsSession == [][C22_Step]_vars

\* a session cancelled while its waiter was waiting for the password, and a
\* later poll of its token answered 404
C22_Witness ==
    /\ qr_resp # None
    /\ qr_resp[1].op = "get_qr_status"
    /\ qr_resp[1].code = 404
    /\ qr_resp[1].token \in 1..Len(qr_objects)
    /\ qr_objects[qr_resp[1].token].task = "cancelled"
    /\ qr_objects[qr_resp[1].token].status = "password_required"

\* C21: submit_2fa_password delivers a password only when the token is in
\* the table, the status is password_required and no password was delivered
\* before; a token in the table in any other status, or with a password
\* already delivered, is answered 409 and an unknown token 404, and a 404 or
\* 409 leaves every session object (status and password future) as it was.
C21_Step ==
    /\ \A t \in 1..Len(qr_objects) :
          (\/ t \in twofa_req' \ twofa_req
           \/ (qr_objects[t].future # "set" /\ qr_objects'[t].future = "set"))
          => /\ t \in qr_sessions
             /\ qr_objects[t].status = "password_required"
             /\ qr_objects[t].future = "pending"
             /\ qr_objects'[t].status = "password_required"
    /\ (qr_resp' # None /\ qr_resp'[1].op = "submit_2fa_password") =>
         LET r == qr_resp'[1] IN
         /\ r.code \in {200, 404, 409}
         /\ r.code = 404 <=> (r.token \notin qr_sessions /\ r.token \notin twofa_req \ twofa_req')
         /\ r.code = 409 =>
               /\ r.token \in qr_sessions
               /\ \/ qr_objects[r.token].status # "password_required"
                  \/ qr_objects[r.token].future # "pending"
         /\ r.code = 200 => r.token \in twofa_req \ twofa_req'
         /\ r.code \in {404, 409} => (qr_objects' = qr_objects /\ twofa_req' = twofa_req)

C21_SubmitPasswordGuard == [][C21_Step]_vars

\* a second submission answered 409: the status is still password_required,
\* the first password was delivered and its call has already answered
C21_Witness ==
    /\ qr_resp # None
    /\ qr_resp[1].op = "submit_2fa_password"
    /\ qr_resp[1].code = 409
    /\ qr_objects[qr_resp[1].token].status = "password_required"
    /\ qr_objects[qr_resp[1].token].future = "set"

\* C20: once get_qr_status has returned success, expired or error for a
\* token, the token is out of the session table, and every poll, 2FA
\* submission or cancel for it that arrives afterwards is answered 404 (a
\* submission already in its sleep loop when the poll came is not a later
\* one); a poll answered pending or password_required leaves the token in
\* the table.
C20_Step ==
    /\ qr_terminal' \cap qr_sessions' = {}
    /\ qr_resp' # None =>
         LET r == qr_resp'[1] IN
         /\ (/\ r.op \in {"get_qr_status", "submit_2fa_password", "cancel_qr_auth"}
             /\ r.token \in qr_terminal
             /\ r.token \notin twofa_req \ twofa_req')
            => r.code = 404
         /\ (r.op = "get_qr_status" /\ r.code = 200 /\ r.status \in TerminalStatus)
            => r.token \notin qr_sessions'
         /\ (r.op = "get_qr_status" /\ r.code = 200 /\ r.status \notin TerminalStatus)
            => (r.status \in {"pending", "password_required"}
                /\ r.token \in qr_sessions /\ r.token \in qr_sessions')

C20_TerminalPollRemovesToken == [][C20_Step]_vars

\* a poll has returned success for a token, and a cancel that came for it
\* afterwards was answered 404
C20_Witness ==
    /\ qr_resp # None
    /\ qr_resp[1].op = "cancel_qr_auth"
    /\ qr_resp[1].code = 404
    /\ qr_resp[1].token \in qr_terminal
    /\ qr_objects[qr_resp[1].token].status = "success"

\* ------------------------------------------------------ PATCH /settings
\* a body supplies at most MaxSupplied of the five fields of SettingsUpdate;
\* a supplied field is null (None) or a value, a field not supplied is None
MaxSupplied == 2

Fields == {"download_media", "max_media_size_mb", "telegram_batch_size",
           "repair_media", "download_file_types"}

OptBool == {None} \cup {Some(v) : v \in BOOLEAN}

\* DownloadFileTypesUpdate: the toggles supplied, each null or a value
TypeUpdates ==
    {u \in [types : SUBSET FileTypes, val : [FileTypes -> OptBool]] :
        \A t \in FileTypes \ u.types : u.val[t] = None}

Bodies ==
    {b \in [fields : {F \in SUBSET Fields : Cardinality(F) <= MaxSupplied},
            download_media : OptBool,
            max_media_size_mb : {None} \cup {Some(v) : v \in 0..MaxSize},
            telegram_batch_size : {None} \cup {Some(v) : v \in 0..MaxBatch},
            repair_media : OptBool,
            download_file_types : {None} \cup {Some(u) : u \in TypeUpdates}] :
        \A f \in Fields \ b.fields : b[f] = None}

\* the toggles a body supplies
supplied_types(body) ==
    IF body.download_file_types = None THEN {}
    ELSE body.download_file_types[1].types

\* Field(gt=0) of telegram_batch_size; ge=0 of max_media_size_mb holds of
\* every natural
valid_body(body) ==
    body.telegram_batch_size = None \/ body.telegram_batch_size[1] > 0

\* the toggles rebuilt from the body alone instead of model_copy(update=...)
update_settings_rebuilt(s, body) ==
    [s EXCEPT !.download_file_types =
        IF body.download_file_types # None
        THEN [t \in FileTypes |->
                IF body.download_file_types[1].val[t] # None
                THEN body.download_file_types[1].val[t][1]
                ELSE TRUE]
        ELSE @]

\* update_settings: the changes applied to the in-memory settings
update_settings(s, body) ==
    [download_media |->
        IF body.download_media # None THEN body.download_media[1]
        ELSE s.download_media,
     max_media_size_mb |->
        IF "max_media_size_mb" \in body.fields
        THEN IF body.max_media_size_mb = None \/ body.max_media_size_mb[1] = 0
             THEN None ELSE body.max_media_size_mb
        ELSE s.max_media_size_mb,
     telegram_batch_size |->
        IF body.telegram_batch_size # None THEN body.telegram_batch_size[1]
        ELSE s.telegram_batch_size,
     repair_media |->
        IF body.repair_media # None THEN body.repair_media[1]
        ELSE s.repair_media,
     download_file_types |->
        IF body.download_file_types # None
        THEN [t \in FileTypes |->
                IF body.download_file_types[1].val[t] # None
                THEN body.download_file_types[1].val[t][1]
                ELSE s.download_file_types[t]]
        ELSE s.download_file_types]

InitSettings ==
    /\ remote = {}
    /\ remote_flood = 0
    /\ db = EmptyDb
    /\ sess = EmptyDb
    /\ db0 = EmptyDb
    /\ db_batch = EmptyDb
    /\ prev = None
    /\ pc = "settings"
    /\ InitSync
    /\ query = None
    /\ detail = ""
    /\ status = 0
    /\ storage_open = FALSE
    /\ remote_calls = {}
    /\ store_call = None
    /\ qr_objects = <<>>
    /\ qr_sessions = {}
    /\ session_files = {}
    /\ client_pool = {}
    /\ twofa_req = {}
    /\ qr_resp = None
    /\ qr_terminal = {}
    /\ settings \in AllSettings
    /\ settings_saved = TRUE
    /\ patch_call = None
    /\ download = None
    /\ merge_call = None
    /\ completed = <<>>
    /\ InitPool

\* PATCH /settings: get_authenticated_user, the validation of the body, then
\* update_settings with its save_settings (a failed save is only logged)
UpdateSettings(body, authenticated, saved) ==
    LET code == IF ~authenticated THEN 401
                ELSE IF ~valid_body(body) \/ body.fields = {} THEN 422
                ELSE 200
        after == IF code = 200 THEN update_settings(settings, body) ELSE settings
    IN
    /\ pc = "settings"
    /\ settings' = after
    /\ settings_saved' = IF code = 200 /\ saved THEN TRUE
                         ELSE settings_saved /\ after = settings
    /\ patch_call' = Some([fields |-> body.fields, types |-> supplied_types(body),
                           authenticated |-> authenticated, code |-> code])
    /\ UNCHANGED <<remote, remote_flood, db, sess, db0, db_batch, pc, prev>>
    /\ UNCHANGED syncvars
    /\ UNCHANGED histvars
    /\ UNCHANGED storevars
    /\ UNCHANGED qrvars
    /\ UNCHANGED dlvars
    /\ UNCHANGED mergevars
    /\ UNCHANGED covvars
    /\ UNCHANGED poolvars

NextSettings ==
    \E body \in Bodies : \E authenticated \in BOOLEAN : \E saved \in BOOLEAN :
        UpdateSettings(body, authenticated, saved)

SpecSettings == InitSettings /\ [][NextSettings]_vars

\* C24: a PATCH of the settings leaves every setting the body does not
\* supply, and every per-file-type toggle it does not supply, at its previous
\* value; a PATCH that is not answered 200 changes nothing, and an
\* authenticated PATCH with an empty body is answered 422.
C24_Step ==
    patch_call' # None =>
       LET c == patch_call'[1] IN
       /\ \A f \in Fields \ c.fields : settings'[f] = settings[f]
       /\ \A t \in FileTypes \ c.types :
             settings'.download_file_types[t] = settings.download_file_types[t]
       /\ c.code # 200 => settings' = settings
       /\ (c.fields = {} /\ c.authenticated) => c.code = 422

C24_PatchOnlySupplied == [][C24_Step]_vars

\* a PATCH that supplied only the photos toggle was answered 200 while the
\* videos toggle and the batch size hold values that are not the defaults
C24_Witness ==
    /\ patch_call # None
    /\ patch_call[1].code = 200
    /\ patch_call[1].fields = {"download_file_types"}
    /\ patch_call[1].types = {"photos"}
    /\ settings.download_file_types["photos"]
    /\ ~settings.download_file_types["videos"]
    /\ settings.telegram_batch_size # DefaultSettings.telegram_batch_size

\* ------------------------------------------------------- download_media
\* media_downloader.download_media as download_from_telegram_batched calls it
\* for the messages it fetches, one message at a time (batch size 1). A path
\* is the id of its message (0: None), an error_text its leading word
\* ("": None), a size a number of MB.
DownloadKinds == {"MessageMediaPhoto", "MessageMediaDocument", "MessageMediaGeo"}

DownloadSizes == {MaxSize, MaxSize + 1}

DownloadSettings ==
    {s \in AllSettings :
        s.download_media /\ ~s.repair_media /\ s.telegram_batch_size = 1}

MediaDownloadResult(st, path, error_text) ==
    [status |-> st, path |-> path, error_text |-> error_text]

\* a document stands for a video document
classify_media_category(message) ==
    IF message.kind = "MessageMediaPhoto" THEN Some("photos")
    ELSE IF message.kind = "MessageMediaDocument" THEN Some("videos")
    ELSE None

\* download_media up to its retry loop: Some(result) when it returns before
\* the loop, None when it goes on to download. s is the Optional settings,
\* existing: a file of the message is in the media folder, raises: the
\* folder cannot be made or listed
download_media_checks(message, force_redownload, s, existing, raises) ==
    IF raises THEN Some(MediaDownloadResult("failed", 0, "OSError"))
    ELSE IF existing /\ ~force_redownload
    THEN Some(MediaDownloadResult("downloaded", message.id, ""))
    ELSE IF /\ s # None
            /\ s[1].max_media_size_mb # None
            /\ message.size > s[1].max_media_size_mb[1]
    THEN Some(MediaDownloadResult("skipped", 0, "skipped_by_size_limit"))
    ELSE IF /\ s # None
            /\ classify_media_category(message) # None
            /\ ~s[1].download_file_types[classify_media_category(message)[1]]
    THEN Some(MediaDownloadResult("skipped", 0, "skipped_by_file_type"))
    ELSE IF message.kind \notin {"MessageMediaPhoto", "MessageMediaDocument"}
    THEN Some(MediaDownloadResult("skipped", 0, ""))
    ELSE None

\* the sleep after a failed attempt that is not a rate-limit signal
backoff_flat(attempt) == 1

backoff(attempt) == 2 ^ attempt

InitDownload ==
    /\ remote = {}
    /\ remote_flood = 0
    /\ db = EmptyDb
    /\ sess = EmptyDb
    /\ db0 = EmptyDb
    /\ db_batch = EmptyDb
    /\ prev = None
    /\ pc = "telegram"
    /\ InitSync
    /\ query = None
    /\ detail = ""
    /\ status = 0
    /\ storage_open = FALSE
    /\ remote_calls = {}
    /\ store_call = None
    /\ qr_objects = <<>>
    /\ qr_sessions = {}
    /\ session_files = {}
    /\ client_pool = {}
    /\ twofa_req = {}
    /\ qr_resp = None
    /\ qr_terminal = {}
    /\ settings \in DownloadSettings
    /\ settings_saved = TRUE
    /\ patch_call = None
    /\ download = None
    /\ merge_call = None
    /\ completed = <<>>
    /\ InitPool

DownloadUnchanged ==
    /\ UNCHANGED <<remote, remote_flood, db, sess, db0, db_batch, prev>>
    /\ UNCHANGED <<requested, force_refresh, telegram_batch_size, client_batch_size,
                   cached_range, gaps, covered, segments, segi, iter, savek,
                   cache_offset, cache_rows, client_buffer, out, produced, listing, err>>
    /\ UNCHANGED histvars
    /\ UNCHANGED storevars
    /\ UNCHANGED qrvars
    /\ UNCHANGED setvars
    /\ UNCHANGED mergevars
    /\ UNCHANGED covvars
    /\ UNCHANGED poolvars

\* the loop of download_from_telegram_batched has its next message
NextMessage ==
    /\ pc = "telegram"
    /\ IF download = None THEN TRUE ELSE download[1].phase = "processed"
    /\ Len(produced) < MaxMsgs

\* scrape_media and message.media and not a web page: download_media is
\* called and runs up to its retry loop
DownloadBegin(kind, size, force_redownload, with_settings, existing, raises) ==
    /\ NextMessage
    /\ LET message == [id |-> Len(produced) + 1, kind |-> kind, size |-> size]
           r == download_media_checks(message, force_redownload,
                                      IF with_settings THEN Some(settings) ELSE None,
                                      existing, raises)
       IN download' = Some([message |-> message,
                            force_redownload |-> force_redownload,
                            with_settings |-> with_settings,
                            existing |-> existing,
                            raises |-> raises,
                            attempt |-> 0,
                            sleeps |-> <<>>,
                            failures |-> <<>>,
                            result |-> r,
                            phase |-> IF r = None THEN "loop" ELSE "returned"])
    /\ UNCHANGED <<pc, batch, final>>
    /\ DownloadUnchanged

\* download_media returns result
Returned(d, result) == [d EXCEPT !.result = Some(result), !.phase = "returned"]

\* message.download_media returns a path that exists
AttemptDownloaded ==
    /\ download # None
    /\ download[1].phase = "loop"
    /\ download' = Some(Returned(download[1],
                         MediaDownloadResult("downloaded", download[1].message.id, "")))
    /\ UNCHANGED <<pc, batch, final>>
    /\ DownloadUnchanged

\* message.download_media returns no path
AttemptEmpty ==
    /\ download # None
    /\ download[1].phase = "loop"
    /\ download' = Some(Returned(download[1],
                         MediaDownloadResult("failed", 0, "download_returned_empty_path")))
    /\ UNCHANGED <<pc, batch, final>>
    /\ DownloadUnchanged

\* the last failed attempt is taken for a download
AttemptFailed_taken(d, failure, seconds) ==
    IF d.attempt < 2
    THEN [d EXCEPT !.failures = Append(@, failure),
                   !.sleeps = Append(@, seconds),
                   !.attempt = @ + 1]
    ELSE [Returned(d, MediaDownloadResult("downloaded", d.message.id, ""))
             EXCEPT !.failures = Append(@, failure)]

\* the attempt failed with failure: slept seconds and a further attempt, or
\* the result failed after the last one
AttemptFailed(d, failure, seconds) ==
    IF d.attempt < 2
    THEN [d EXCEPT !.failures = Append(@, failure),
                   !.sleeps = Append(@, seconds),
                   !.attempt = @ + 1]
    ELSE [Returned(d, MediaDownloadResult("failed", 0, failure.kind))
             EXCEPT !.failures = Append(@, failure)]

\* message.download_media raises FloodWaitError(seconds)
AttemptFloodWait(seconds) ==
    /\ download # None
    /\ download[1].phase = "loop"
    /\ download' = Some(AttemptFailed(download[1],
                            [kind |-> "FloodWaitError", seconds |-> seconds], seconds))
    /\ UNCHANGED <<pc, batch, final>>
    /\ DownloadUnchanged

\* message.download_media raises another exception
AttemptRaises ==
    /\ download # None
    /\ download[1].phase = "loop"
    /\ download' = Some(AttemptFailed(download[1],
                            [kind |-> "Exception", seconds |-> 0],
                            backoff(download[1].attempt)))
    /\ UNCHANGED <<pc, batch, final>>
    /\ DownloadUnchanged

\* the record joins the batch, which is full
JoinBatch(message_id, media_path) ==
    /\ batch' = Append(batch, [message_id |-> message_id,
                               date |-> Min(message_id - 1, MaxTime),
                               media_path |-> media_path,
                               media_uuid |-> 0])
    /\ pc' = "save_upsert"
    /\ final' = FALSE

\* a skipped download makes the processing of its record raise
ProcessRecord_strict ==
    /\ pc = "telegram"
    /\ download # None
    /\ download[1].phase = "returned"
    /\ download' = Some([download[1] EXCEPT !.phase = "processed"])
    /\ IF download[1].result[1].status = "downloaded"
       THEN /\ JoinBatch(download[1].message.id, download[1].result[1].path)
            /\ UNCHANGED err
       ELSE /\ pc' = "error"
            /\ err' = Error("ProcessingError", 0)
            /\ UNCHANGED <<batch, final>>
    /\ UNCHANGED <<remote, remote_flood, db, sess, db0, db_batch, prev>>
    /\ UNCHANGED <<requested, force_refresh, telegram_batch_size, client_batch_size,
                   cached_range, gaps, covered, segments, segi, iter, savek,
                   cache_offset, cache_rows, client_buffer, out, produced, listing>>
    /\ UNCHANGED histvars
    /\ UNCHANGED storevars
    /\ UNCHANGED qrvars
    /\ UNCHANGED setvars
    /\ UNCHANGED mergevars
    /\ UNCHANGED covvars
    /\ UNCHANGED poolvars

\* download_media has returned: media_path is the path of a downloaded
\* result, MessageData is built and appended to the batch
ProcessRecord ==
    /\ pc = "telegram"
    /\ download # None
    /\ download[1].phase = "returned"
    /\ download' = Some([download[1] EXCEPT !.phase = "processed"])
    /\ JoinBatch(download[1].message.id,
                 IF download[1].result[1].status = "downloaded"
                 THEN download[1].result[1].path ELSE 0)
    /\ DownloadUnchanged

\* scrape_media is off, or the message has no media or a web page:
\* download_media is not called
ProcessPlain ==
    /\ NextMessage
    /\ download' = None
    /\ JoinBatch(Len(produced) + 1, 0)
    /\ DownloadUnchanged

NextDownload ==
    \/ \E kind \in DownloadKinds : \E size \in DownloadSizes :
       \E force_redownload \in BOOLEAN : \E with_settings \in BOOLEAN :
       \E existing \in BOOLEAN : \E raises \in BOOLEAN :
          DownloadBegin(kind, size, force_redownload, with_settings, existing, raises)
    \/ AttemptDownloaded
    \/ AttemptEmpty
    \/ \E seconds \in 1..MaxWait : AttemptFloodWait(seconds)
    \/ AttemptRaises
    \/ ProcessRecord
    \/ ProcessPlain
    \/ SaveUpsert
    \/ SaveMedia
    \/ SaveCommit
    \/ Deliver
    \/ Drain

SpecDownload == InitDownload /\ [][NextDownload]_vars

\* C27: download_media makes at most 3 download attempts; after every failed
\* attempt but the third it has slept once, the signalled seconds when the
\* failure was the rate-limit signal and 2^attempt seconds (1, then 2)
\* otherwise, and after the third failure it has not slept but returned
\* failed; whatever happens it ends with a result whose status is
\* downloaded, skipped or failed.
C27_BoundedRetry ==
    download # None =>
       LET d == download[1] IN
       /\ Len(d.failures) <= 3
       /\ d.attempt = Len(d.sleeps)
       /\ Len(d.sleeps) = Min(Len(d.failures), 2)
       /\ \A i \in 1..Len(d.sleeps) :
             d.sleeps[i] = IF d.failures[i].kind = "FloodWaitError"
                           THEN d.failures[i].seconds
                           ELSE 2 ^ (i - 1)
       /\ d.phase = "loop" <=> d.result = None
       /\ d.phase = "loop" => Len(d.failures) < 3
       /\ Len(d.failures) = 3 => d.result[1].status = "failed"
       /\ d.result # None => d.result[1].status \in {"downloaded", "skipped", "failed"}
       /\ pc # "error"

\* three failed attempts: a rate-limit signal of MaxWait seconds, then two
\* other failures; slept MaxWait and 2 seconds, and the result is failed
C27_Witness ==
    /\ download # None
    /\ Len(download[1].failures) = 3
    /\ download[1].failures[1] = [kind |-> "FloodWaitError", seconds |-> MaxWait]
    /\ download[1].failures[2].kind = "Exception"
    /\ download[1].failures[3].kind = "Exception"
    /\ download[1].sleeps = <<MaxWait, 2>>
    /\ download[1].result[1].status = "failed"

\* the call d reaches the policy checks of download_media, and the size limit
\* or the per-file-type toggles of the settings rule its attachment out
OverSizeLimit(d) ==
    /\ settings.max_media_size_mb # None
    /\ d.message.size > settings.max_media_size_mb[1]

DisallowedKind(d) ==
    /\ classify_media_category(d.message) # None
    /\ ~settings.download_file_types[classify_media_category(d.message)[1]]

SkippedByPolicy(d) ==
    /\ ~d.raises
    /\ ~(d.existing /\ ~d.force_redownload)
    /\ d.with_settings
    /\ OverSizeLimit(d) \/ DisallowedKind(d)

\* C28: for an attachment the size limit or the file-type toggles rule out,
\* download_media returns status skipped with a reason code and no path (and
\* only then a skipped result with a reason), and this is no error: the
\* owning record joins its batch with no media path, is committed with the
\* batch and handed on to the caller.
C28_SkippedByPolicy ==
    download # None =>
       LET d == download[1] IN
       /\ SkippedByPolicy(d) <=>
             /\ d.result # None
             /\ d.result[1].status = "skipped"
             /\ d.result[1].error_text # ""
       /\ SkippedByPolicy(d) =>
             /\ d.result[1].path = 0
             /\ d.result[1].error_text = IF OverSizeLimit(d) THEN "skipped_by_size_limit"
                                         ELSE "skipped_by_file_type"
             /\ pc # "error"
             /\ err = None
             /\ d.phase = "processed" =>
                   IF pc \in {"save_upsert", "save_media", "deliver"}
                   THEN \E i \in 1..Len(batch) :
                           /\ batch[i].message_id = d.message.id
                           /\ batch[i].media_path = 0
                   ELSE /\ d.message.id \in Ids(db.messages)
                        /\ \E i \in 1..Len(Items) :
                              /\ Items[i].message_id = d.message.id
                              /\ Items[i].source = "telegram"
                              /\ Items[i].media_uuid = 0

\* a photo over the size limit was skipped, and its record has been committed
\* and yielded to the caller
C28_Witness ==
    /\ download # None
    /\ download[1].phase = "processed"
    /\ download[1].result[1].status = "skipped"
    /\ download[1].result[1].error_text = "skipped_by_size_limit"
    /\ download[1].message.kind = "MessageMediaPhoto"
    /\ pc = "telegram"
    /\ \E k \in 1..Len(out) : \E i \in 1..Len(out[k]) :
          out[k][i].message_id = download[1].message.id

\* C38: when the third download attempt of an attachment has failed,
\* download_media returns status failed with no path; the sync is not ended
\* by it: the owning record joins its batch with no media path, is committed
\* with the batch and handed on to the caller without a payload, and the loop
\* stands ready for the next record.
RetriesExhausted(d) == Len(d.failures) = 3

C38_FailedDownloadKeepsRecord ==
    (download # None /\ RetriesExhausted(download[1])) =>
       LET d == download[1] IN
       /\ d.result # None
       /\ d.result[1].status = "failed"
       /\ d.result[1].path = 0
       /\ pc # "error"
       /\ err = None
       /\ d.phase = "processed" =>
             IF pc \in {"save_upsert", "save_media", "deliver"}
             THEN \E i \in 1..Len(batch) :
                     /\ batch[i].message_id = d.message.id
                     /\ batch[i].media_path = 0
             ELSE /\ pc \in {"drain", "telegram"}
                  /\ d.message.id \in Ids(db.messages)
                  /\ \A r \in db.messages : r.message_id = d.message.id => r.media_uuid = 0
                  /\ \E i \in 1..Len(Items) :
                        /\ Items[i].message_id = d.message.id
                        /\ Items[i].source = "telegram"
                        /\ Items[i].media_uuid = 0

\* the record of an attachment whose three attempts failed has been
\* committed and yielded, after an earlier record, and the loop can take the
\* next record
C38_Witness ==
    /\ download # None
    /\ RetriesExhausted(download[1])
    /\ download[1].phase = "processed"
    /\ download[1].message.id = 2
    /\ \E k \in 1..Len(out) : \E i \in 1..Len(out[k]) : out[k][i].message_id = 2
    /\ NextMessage

\* ------------------------------------- the storage operations, applied
\* The operations of database/operations.py applied one after the other, in
\* any order and with any arguments, on an initially empty store. store_call
\* keeps the call, what it returned, and what the store held for its target
\* before it (known: the ids stored; linked: the media_uuid of the target
\* message; path: the file_path of the target MediaFile; 0 for none).
MaxRows == 2

StoreIds == 1..MaxRows

\* two file paths (0 is None) and two timestamps are enough to tell a value
\* that was overwritten from one that was kept
StorePaths == {1, 2}

StoreDates == {0, 1}

StoreMessages == {[message_id |-> i, date |-> d] : i \in StoreIds, d \in StoreDates}

StoreBatches ==
    {<<m>> : m \in StoreMessages} \cup {<<m, n>> : m \in StoreMessages, n \in StoreMessages}

\* get_media_uuid_by_message_id: the media_uuid of the message (0: none)
LinkOf(s, message_id) ==
    LET message == FirstMessage(s.messages, message_id)
    IN IF message # None THEN message[1].media_uuid ELSE 0

\* the file_path of the MediaFile of that uuid (0: no such row, or no path)
PathOf(s, media_uuid) ==
    IF \E f \in s.media : f.uuid = media_uuid
    THEN (CHOOSE f \in s.media : f.uuid = media_uuid).file_path
    ELSE 0

InitStore ==
    /\ remote = {}
    /\ remote_flood = 0
    /\ db = EmptyDb
    /\ sess = EmptyDb
    /\ db0 = EmptyDb
    /\ db_batch = EmptyDb
    /\ prev = None
    /\ pc = "store"
    /\ InitSync
    /\ InitOther

StoreUnchanged ==
    /\ UNCHANGED <<remote, remote_flood, db0, db_batch, pc, prev>>
    /\ UNCHANGED syncvars
    /\ UNCHANGED histvars
    /\ UNCHANGED qrvars
    /\ UNCHANGED setvars
    /\ UNCHANGED dlvars
    /\ UNCHANGED mergevars
    /\ UNCHANGED covvars
    /\ UNCHANGED poolvars

\* batch_upsert_messages(session, messages, dialog_id=...) with its defaults
\* replace_existing=True, auto_commit=True
ApplyBatchUpsert(messages) ==
    /\ pc = "store"
    /\ sess' = batch_upsert_messages(sess, messages)
    /\ db' = commit(db, sess')
    /\ store_call' = Some([op |-> "batch_upsert_messages", messages |-> messages,
                           known |-> Ids(sess.messages)])
    /\ StoreUnchanged

\* store_media_with_uuid(session, dialog_id, message_id, ..., file_path)
ApplyStoreMedia(message_id, file_path) ==
    /\ pc = "store"
    /\ LET r == store_media_with_uuid(sess, message_id, file_path)
       IN /\ Cardinality(r.sess.media) <= MaxRows
          /\ sess' = r.sess
          /\ db' = commit(db, r.sess)
          /\ store_call' = Some([op |-> "store_media_with_uuid", message_id |-> message_id,
                                 file_path |-> file_path, uuid |-> r.uuid,
                                 linked |-> LinkOf(sess, message_id),
                                 path |-> PathOf(sess, LinkOf(sess, message_id))])
    /\ StoreUnchanged

\* update_media_file_path(session, media_uuid, file_path)
ApplyUpdateMediaFilePath(media_uuid, file_path) ==
    /\ pc = "store"
    /\ sess' = update_media_file_path(sess, media_uuid, file_path)
    /\ db' = commit(db, sess')
    /\ store_call' = Some([op |-> "update_media_file_path", media_uuid |-> media_uuid,
                           file_path |-> file_path, path |-> PathOf(sess, media_uuid)])
    /\ StoreUnchanged

NextStore ==
    \/ \E messages \in StoreBatches : ApplyBatchUpsert(messages)
    \/ \E message_id \in StoreIds : \E file_path \in {0} \cup StorePaths :
          ApplyStoreMedia(message_id, file_path)
    \/ \E media_uuid \in 1..MaxRows : \E file_path \in StorePaths :
          ApplyUpdateMediaFilePath(media_uuid, file_path)

SpecStore == InitStore /\ [][NextStore]_vars

\* ------------------------------------------------------------------ claims
InRequest(d) == d >= requested.start /\ d <= requested.end

TelegramIds(items) == {items[i].message_id : i \in {j \in 1..Len(items) : items[j].source = "telegram"}}

\* C1: for every requested range and every cached range (none included), the
\* gaps of find_gaps together with the range of find_covered_range, sorted by
\* start, reassemble the requested range: the first piece starts at
\* requested.start, the last ends at requested.end, each piece ends where the
\* next begins, and no two pieces overlap.
C1_GapCoverCompleteness ==
    pc \in {"alg_covered", "alg_timeline"} =>
        LET p == SortByStart(gaps \o covered)
        IN /\ Len(p) >= 1
           /\ p[1].start = requested.start
           /\ p[Len(p)].end = requested.end
           /\ \A i \in 1..(Len(p) - 1) : p[i].end = p[i + 1].start
           /\ \A i \in 1..Len(p) : \A j \in 1..Len(p) : i < j => p[i].end <= p[j].start

\* a request that sticks out of the cached range on both sides: two gaps
\* and a covered range
C1_Witness == pc = "alg_covered" /\ Len(gaps) = 2 /\ covered # None

\* C2: if persisting a remote batch fails at any step (upsert, a
\* store_media_with_uuid, the commit), nothing of that batch is persisted or
\* observable afterwards: the committed tables and the session are what they
\* were when the save began.
C2_AtomicBatchCommit ==
    (pc = "error" /\ err # None /\ err[1].kind = "StorageError") =>
        (db = db_batch /\ sess = db_batch)

\* C3: a non-forced sync that repeats the range of the last completed
\* non-forced sync, the remote data unchanged in between, yields the same
\* ordered sequence of records, and none of its remote listings reaches into
\* the cached range.
C3_ResyncIdempotent ==
    (pc = "done" /\ prev # None /\ ~force_refresh /\ ~prev[1].force
                 /\ prev[1].requested = requested) =>
        /\ IdentSeq(Flatten(out)) = prev[1].items
        /\ cached_range # None =>
              \A i \in 1..Len(listing) :
                  \/ listing[i].end <= cached_range[1].start
                  \/ listing[i].start >= cached_range[1].end

\* C4: the timestamps of the items of the output stream are non-decreasing
\* over the whole stream, across the segment boundaries too.
C4_MonotonicOutput ==
    \A i \in 1..(Len(Items) - 1) : Items[i].date <= Items[i + 1].date

\* a completed sync whose stream has items of a cache segment and of a
\* remote segment
C4_Witness ==
    /\ pc = "done"
    /\ Len(segments) >= 2
    /\ \E i \in 1..Len(Items) : Items[i].source = "cache"
    /\ \E i \in 1..Len(Items) : Items[i].source = "telegram"

\* C5: every item the sync has handed on (yielded in a chunk, or waiting in
\* client_buffer) is a committed row of the store: write-then-yield.
C5_WriteThenYield ==
    \A i \in 1..Len(Items) : Items[i].message_id \in Ids(db.messages)

\* a chunk with a freshly fetched record has been yielded while the sync is
\* still running
C5_Witness ==
    /\ pc = "drain"
    /\ \E k \in 1..Len(out) : \E i \in 1..Len(out[k]) : out[k][i].source = "telegram"

\* C6: the output stream of a sync never has the same record twice.
C6_NoDuplicateOutput ==
    \A i \in 1..Len(Items) : \A j \in 1..Len(Items) :
        i < j => Items[i].message_id # Items[j].message_id

\* C7: a sync that completes has emitted every record the remote source holds
\* with a timestamp inside the requested range.
C7_NoDroppedRecord ==
    pc = "done" =>
        \A m \in remote : InRequest(m.date) =>
            \E i \in 1..Len(Items) : Items[i].message_id = m.id

\* C8: with caller chunk size N, every yielded chunk but the last has exactly
\* N items, the last has 1..N, none is empty, a completed sync of M items has
\* yielded ceil(M/N) chunks, and the chunks concatenated are the items in
\* production order (a consumer that stops reading at a yield has received a
\* prefix of them).
C8_Rechunking ==
    LET n == client_batch_size
    IN /\ \A k \in 1..Len(out) : Len(out[k]) >= 1 /\ Len(out[k]) <= n
       /\ \A k \in 1..(Len(out) - 1) : Len(out[k]) = n
       /\ pc \notin {"done", "closed"} =>
             /\ \A k \in 1..Len(out) : Len(out[k]) = n
             /\ Flatten(out) \o client_buffer = produced
       /\ pc = "closed" =>
             /\ Flatten(out) \o client_buffer = produced
             /\ client_buffer # <<>> => \A k \in 1..Len(out) : Len(out[k]) = n
       /\ pc = "done" => /\ Flatten(out) = produced
                         /\ Len(out) = (Len(produced) + n - 1) \div n

\* a completed sync whose last chunk is undersized and follows a full one
C8_Witness ==
    /\ pc = "done"
    /\ Len(out) >= 2
    /\ Len(out[Len(out)]) < client_batch_size

\* C9: a rate-limit signal of the listing call ends the sync with the error
\* that carries exactly the signalled wait; the listing is not retried, and
\* nothing of the batch in flight is persisted (nothing at all when no batch
\* has been committed before).
C9_RateLimitPropagates ==
    (pc = "error" /\ err # None /\ err[1].kind = "FloodWaitError") =>
        /\ err[1].seconds = remote_flood
        /\ Len(listing) = Cardinality({k \in 1..segi : segments[k].source = "telegram"})
        /\ db = db_batch /\ sess = db
        /\ \A i \in 1..Len(batch) :
              batch[i].message_id \in Ids(db.messages) =>
                  batch[i].message_id \in Ids(db0.messages) \cup TelegramIds(produced)
        /\ TelegramIds(produced) = {} => db = db0

\* the signal arrives while a fetched record waits in the batch
C9_Witness ==
    /\ pc = "error"
    /\ err # None
    /\ err[1].kind = "FloodWaitError"
    /\ err[1].seconds = MaxWait
    /\ batch # <<>>

\* C10: a forced sync does not look at the cached coverage and reads no cache
\* segment: its timeline is the one remote segment [start, end], its items
\* are records the remote source holds in that range, and an empty remote
\* source gives an empty output.
C10_ForceRefresh ==
    (force_refresh /\ pc # "idle") =>
        /\ segments = <<TimelineSegment(requested.start, requested.end, "telegram")>>
        /\ cached_range = None
        /\ covered = None
        /\ \A i \in 1..Len(produced) :
              /\ produced[i].source = "telegram"
              /\ InRequest(produced[i].date)
              /\ \E m \in remote : m.id = produced[i].message_id /\ m.date = produced[i].date
        /\ remote = {} => produced = <<>>

\* a forced sync over a range in which the cache holds records, the remote
\* source holding none, has completed with no output
C10_Witness ==
    /\ force_refresh
    /\ pc = "done"
    /\ remote = {}
    /\ out = <<>>
    /\ \E r \in db.messages : InRequest(r.date)

\* C25: when the processing of a fetched record raises, the sync ends with
\* that error: the step writes nothing and hands nothing on, the committed
\* tables and the session are what the last committed batch left (so the
\* batch in flight contributes nothing, and the earlier batches stay), the
\* only step after it ends the coroutine without a further fetch or write;
\* and no record is passed over: every record taken from the listing joins
\* the batch.
C25_Step ==
    /\ (pc' = "error" /\ err' # None /\ err'[1].kind = "ProcessingError" /\ pc # "error") =>
          /\ db' = db /\ sess' = sess
          /\ db' = db_batch /\ sess' = db_batch
          /\ out' = out /\ client_buffer' = client_buffer /\ produced' = produced
          /\ iter' = iter /\ batch' = batch /\ listing' = listing
          /\ TelegramIds(produced) \subseteq Ids(db'.messages)
    /\ (pc = "error" /\ err # None /\ err[1].kind = "ProcessingError") =>
          /\ pc' = "idle" /\ prev' = None
          /\ db' = db /\ sess' = sess /\ remote' = remote
    /\ (pc = "telegram" /\ pc' # "idle" /\ iter' # iter) =>
          /\ iter # <<>>
          /\ iter' = Tail(iter)
          /\ Len(batch') = Len(batch) + 1
          /\ batch'[Len(batch')].message_id = Head(iter).id

C25_ProcessingErrorAbandonsBatch == [][C25_Step]_vars

\* the processing of a record raised while a fetched record that is not in
\* the store waited in the batch, the store holding records committed before
C25_Witness ==
    /\ pc = "error"
    /\ err # None
    /\ err[1].kind = "ProcessingError"
    /\ batch # <<>>
    /\ db.messages # {}
    /\ \E i \in 1..Len(batch) : batch[i].message_id \notin Ids(db.messages)

\* C26: when the save of a batch fails, the batch is rolled back (the
\* committed tables and the session are what they were when the save began),
\* the sync ends with the error, and the failed batch is not handed on; the
\* only step after it ends the coroutine: no listing, no cache read, no
\* commit.
C26_Step ==
    /\ (pc' = "error" /\ err' # None /\ err'[1].kind = "StorageError" /\ pc # "error") =>
          /\ sess' = db'
          /\ db' = db_batch
          /\ out' = out /\ client_buffer' = client_buffer /\ produced' = produced
          /\ listing' = listing /\ iter' = iter
    /\ (pc = "error" /\ err # None /\ err[1].kind = "StorageError") =>
          /\ pc' = "idle" /\ prev' = None
          /\ db' = db /\ sess' = sess /\ remote' = remote

C26_StorageFailureTerminates == [][C26_Step]_vars

\* C29: at every yield of the sync the session holds no write that is not
\* committed and the committed tables are those the last whole batch left;
\* when the consumer stops reading there, the stop itself writes nothing and
\* lists nothing, and the only step after it ends the coroutine: no further
\* remote call, no write.
C29_Step ==
    /\ Len(out') > Len(out) =>
          /\ sess' = db'
          /\ db' = db_batch'
          /\ db' = db
          /\ pc \in {"cache_rows", "drain", "flush"}
          /\ TelegramIds(produced') \subseteq Ids(db'.messages)
    /\ (pc' = "closed" /\ pc # "closed") =>
          /\ Len(out') > Len(out)
          /\ listing' = listing /\ iter' = iter /\ remote' = remote
    /\ pc = "closed" =>
          /\ pc' = "idle" /\ prev' = None
          /\ db' = db /\ sess' = sess /\ remote' = remote

C29_YieldOutsideTransaction == [][C29_Step]_vars

\* the consumer stopped reading in a remote segment after a committed batch
\* was yielded, the listing still holding a record to fetch
C29_Witness ==
    /\ pc = "closed"
    /\ segi \in 1..Len(segments)
    /\ segments[segi].source = "telegram"
    /\ iter # <<>>
    /\ TelegramIds(produced) # {}

\* C30: within a sync the segment index only moves from k to k+1, to a segment
\* that starts no earlier than segment k ends, and only when segment k is
\* over: no fetched record waits in a batch, the session holds nothing that
\* is not committed, every record of a remote segment k is stored and has
\* joined the output, every stored row of a cache segment k has joined the
\* output. A remote listing is opened, and a storage page read, only for the
\* segment the index stands on, with no batch of another segment pending.
SegmentRows(k) ==
    {r \in sess.messages : r.date >= segments[k].start /\ r.date <= segments[k].end}

SegmentFetched(k) ==
    LET f == fetched_messages(remote, segments[k].start, segments[k].end)
    IN {f[i].message_id : i \in 1..Len(f)}

C30_Step ==
    /\ (pc \notin {"idle", "done", "error", "closed"} /\ segi' # segi) =>
          /\ segi' = segi + 1
          /\ pc' = "segments"
          /\ batch = <<>> /\ batch' = <<>>
          /\ sess = db /\ db = db_batch
          /\ segi' <= Len(segments) => segments[segi].end <= segments[segi'].start
          /\ segments[segi].source = "telegram" =>
                /\ SegmentFetched(segi) \subseteq Ids(db.messages)
                /\ SegmentFetched(segi) \subseteq TelegramIds(produced)
          /\ segments[segi].source = "cache" =>
                Ids(SegmentRows(segi)) \subseteq
                    {produced[i].message_id : i \in 1..Len(produced)}
    /\ Len(listing') > Len(listing) =>
          /\ pc = "segments"
          /\ listing' = Append(listing, segments[segi])
          /\ Len(listing') <= segi
          /\ batch = <<>> /\ sess = db
    /\ pc = "cache_query" =>
          /\ segments[segi].source = "cache"
          /\ batch = <<>> /\ sess = db

C30_SegmentsInOrder == [][C30_Step]_vars

\* a cache segment is being read after a remote segment that fetched records
C30_Witness ==
    /\ pc = "cache_query"
    /\ segi >= 2
    /\ segments[segi - 1].source = "telegram"
    /\ SegmentFetched(segi - 1) # {}
    /\ cache_offset = 0

\* C31: reading a cache segment, iter_messages_in_range asks for pages at
\* offsets 0, batch_size, 2*batch_size, ... and stops at the first offset that
\* is not below the number of stored rows of the segment; each page holds at
\* most batch_size rows; the rows read so far are stored rows of the segment,
\* each once, in ascending timestamp order (rows of one timestamp included),
\* the page read next continues them, and the loop is left only when every
\* stored row of the segment has been read; no step of the read changes the
\* store.
LastItems(items, k) ==
    IF k <= Len(items) THEN SubSeq(items, Len(items) - k + 1, Len(items)) ELSE items

AscendingOnce(rows) ==
    \A i \in 1..Len(rows) : \A j \in 1..Len(rows) :
        i < j => (rows[i].date <= rows[j].date /\ rows[i].message_id # rows[j].message_id)

C31_Step ==
    /\ pc = "cache_query" =>
          LET n == Cardinality(SegmentRows(segi))
              k == Min(cache_offset, n)
              read == LastItems(produced, k)
          IN /\ cache_offset < n + telegram_batch_size
             /\ Len(read) = k
             /\ AscendingOnce(read)
             /\ \A i \in 1..k : /\ read[i].source = "cache"
                                 /\ \E r \in SegmentRows(segi) : Ident(r) = Ident(read[i])
             /\ pc' = "segments" => k = n
             /\ pc' = "cache_rows" =>
                   /\ Len(cache_rows') = Min(telegram_batch_size, n - cache_offset)
                   /\ Len(cache_rows') <= telegram_batch_size
                   /\ Range(cache_rows') \subseteq SegmentRows(segi)
                   /\ AscendingOnce(read \o cache_rows')
    /\ (pc = "cache_rows" /\ pc' # "closed") =>
          /\ produced' = Append(produced, cache_item(sess, Head(cache_rows)))
          /\ Ident(cache_item(sess, Head(cache_rows))) = Ident(Head(cache_rows))
          /\ cache_rows' = Tail(cache_rows)
    /\ pc \in {"cache_query", "cache_rows"} => (db' = db /\ sess' = sess)

Covered(r) == (2 * r.start)..(2 * r.end)

CoveredAll(ranges) == UNION {Covered(ranges[i]) : i \in 1..Len(ranges)}

Reorderings(ranges) ==
    {[i \in 1..Len(ranges) |-> ranges[f[i]]] :
        f \in {g \in [1..Len(ranges) -> 1..Len(ranges)] :
                  \A i \in 1..Len(ranges) : \E j \in 1..Len(ranges) : g[j] = i}}

C32_MergeOverlappingRanges ==
    merge_call # None =>
        LET ranges == merge_call[1].ranges
            result == merge_call[1].result
        IN /\ \A i \in 1..(Len(result) - 1) : result[i].end < result[i + 1].start
           /\ \A i \in 1..Len(result) : result[i].start <= result[i].end
           /\ CoveredAll(result) = CoveredAll(ranges)
           /\ \A other \in Reorderings(ranges) : merge_overlapping_ranges(other) = result
           /\ merge_overlapping_ranges(result) = result

\* a list given out of order was merged, one of its ranges starting where
\* another ends
C32_Witness ==
    /\ merge_call # None
    /\ Len(merge_call[1].result) < Len(merge_call[1].ranges)
    /\ Len(merge_call[1].result) >= 2
    /\ merge_call[1].ranges # SortByStart(merge_call[1].ranges)
    /\ \E i \in 1..Len(merge_call[1].ranges) : \E j \in 1..Len(merge_call[1].ranges) :
          /\ i # j
          /\ merge_call[1].ranges[i].end = merge_call[1].ranges[j].start
          /\ merge_call[1].ranges[i].start < merge_call[1].ranges[i].end
          /\ merge_call[1].ranges[j].start < merge_call[1].ranges[j].end

\* C33: the cached coverage is the span from the oldest to the newest stored
\* record. A non-forced sync over a range strictly between the ranges of two
\* earlier syncs, the earlier range first, each of which has a stored record
\* inside it, is planned as fully covered: no gap, one cache segment equal to
\* the request, no remote listing, only cached records in the output -- so a
\* remote record of that range that was never fetched is not returned.
Between(first, second) ==
    /\ first.end < requested.start
    /\ requested.end < second.start

AfterTwoSyncs ==
    /\ pc \notin {"idle", "error", "closed"}
    /\ ~force_refresh
    /\ \E i \in 1..Len(completed) : \E j \in 1..Len(completed) :
          i < j /\ Between(completed[i], completed[j])

StoredInside(r) == \E m \in db0.messages : m.date >= r.start /\ m.date <= r.end

AfterTwoSyncsThatStored ==
    /\ pc \notin {"idle", "error", "closed"}
    /\ ~force_refresh
    /\ \E i \in 1..Len(completed) : \E j \in 1..Len(completed) :
          /\ i < j /\ Between(completed[i], completed[j])
          /\ StoredInside(completed[i]) /\ StoredInside(completed[j])

TreatedAsCovered ==
    /\ cached_range = Some(DateRange(MinDate(db0.messages), MaxDate(db0.messages)))
    /\ gaps = <<>>
    /\ covered = Some(requested)
    /\ segments = <<TimelineSegment(requested.start, requested.end, "cache")>>
    /\ listing = <<>>
    /\ \A i \in 1..Len(Items) : Items[i].source = "cache"
    /\ db = db0

\* the statement without the condition on what the two syncs stored
C33_MiddleRangeCovered ==
    AfterTwoSyncs => (db0.messages # {} /\ TreatedAsCovered)

C33_MiddleRangeCoveredWhenStored == AfterTwoSyncsThatStored => TreatedAsCovered

\* the middle sync has ended without a listing although the remote source
\* holds a record of its range that is not stored
C33_Witness ==
    /\ AfterTwoSyncsThatStored
    /\ pc = "done"
    /\ \E m \in remote : /\ InRequest(m.date)
                         /\ m.id \notin Ids(db.messages)
                         /\ \A i \in 1..Len(Items) : Items[i].message_id # m.id

\* C34: every range a running sync has constructed -- the requested range, the
\* cached coverage, each gap, the covered range, each segment -- has its start
\* strictly before its end.
Proper(r) == r.start < r.end

PlannedRangesProper ==
    /\ Proper(requested)
    /\ \A i \in 1..Len(gaps) : Proper(gaps[i])
    /\ covered # None => Proper(covered[1])
    /\ \A i \in 1..Len(segments) : Proper(segments[i])

C34_RangesProper ==
    pc # "idle" =>
        /\ PlannedRangesProper
        /\ cached_range # None => Proper(cached_range[1])

\* the ranges other than the cached coverage
C34_PlannedRangesProper == pc # "idle" => PlannedRangesProper

\* C35: no step of any sync, forced or not, ended by an error or not, removes
\* a record from the committed store: the stored remote record ids only grow,
\* also when the remote source has lost records that are stored.
C35_Step == Ids(db.messages) \subseteq Ids(db'.messages)

C35_NeverDeleted == [][C35_Step]_vars

\* a forced refresh has completed against a remote source that holds none of
\* the records stored
C35_Witness ==
    /\ pc = "done"
    /\ force_refresh
    /\ remote = {}
    /\ db.messages # {}
    /\ listing # <<>>

\* C36: for each username at most one get_telegram_client call is inside the
\* block guarded by the per-user lock, and no two calls are creating or
\* connecting a client for one username at the same time.
InsideLock(c) ==
    callers[c].pc \in {"check_pooled", "disconnect_pooled", "connect", "authorize",
                       "disconnect_new", "serving"}

C36_OneCallerPerUser ==
    \A c \in Callers : \A d \in Callers :
        (c # d /\ InsideLock(c) /\ InsideLock(d)) => callers[c].username # callers[d].username

\* what holds: a lock object is never held by two calls
C36_OneHolderPerLock ==
    \A c \in Callers : \A d \in Callers :
        (c # d /\ InsideLock(c) /\ InsideLock(d)) => callers[c].lock # callers[d].lock

\* C37: a sync whose remote source and storage answer every call and whose
\* consumer keeps reading comes to its end: from every state in which a sync
\* is running, the state in which the timeline has been walked and the
\* remainder flushed is reached.
C37_SyncTerminates == (pc # "idle") ~> (pc = "done")

\* a sync over a cached and a remote segment has ended with an undersized
\* last chunk after a full one
C37_Witness ==
    /\ pc = "done"
    /\ Len(segments) >= 2
    /\ Len(out) >= 2
    /\ Len(out[Len(out)]) < client_batch_size
    /\ listing # <<>>

\* C11: a non-forced sync whose requested range lies inside the cached
\* coverage has no gap and one covered range, the request itself; it issues
\* no remote listing, and when it completes its output is exactly the stored
\* records with a timestamp in the requested range, in timestamp order.
FullyCached ==
    /\ ~force_refresh
    /\ cached_range # None
    /\ cached_range[1].start <= requested.start
    /\ requested.end <= cached_range[1].end

C11_FullyCachedSync ==
    (pc # "idle" /\ FullyCached) =>
        /\ gaps = <<>>
        /\ covered = Some(requested)
        /\ segments = <<TimelineSegment(requested.start, requested.end, "cache")>>
        /\ listing = <<>>
        /\ db = db0
        /\ pc # "error"
        /\ pc = "done" =>
              IdentSeq(Items) =
                  IdentSeq(OrderByDate({r \in db.messages : InRequest(r.date)}))

\* a fully cached sync has completed with output while the store also holds
\* a record outside the requested range
C11_Witness ==
    /\ pc = "done"
    /\ FullyCached
    /\ Len(Items) >= 2
    /\ \E r \in db.messages : ~InRequest(r.date)

\* C12: when a sync that started on an empty store completes without error,
\* the stored records are the emitted records: every emitted record is
\* stored and every stored record was emitted.
C12_PersistedEqualsEmitted ==
    (pc = "done" /\ db0 = EmptyDb) =>
        {Ident(Items[i]) : i \in 1..Len(Items)} = {Ident(r) : r \in db.messages}

\* such a sync has emitted several records while the remote source holds a
\* record outside the requested range
C12_Witness ==
    /\ pc = "done"
    /\ db0 = EmptyDb
    /\ Len(Items) >= 2
    /\ \E m \in remote : ~InRequest(m.date)

\* C13: when a batch has been committed, every record of it that carries an
\* attachment is linked to a PayloadRecord (a media row), whether or not the
\* attachment was downloaded.
C13_PayloadRecordAlways ==
    pc = "deliver" =>
        \A i \in 1..Len(batch) :
            batch[i].message_id \in MediaIds =>
                \E r \in db.messages :
                    /\ r.message_id = batch[i].message_id
                    /\ r.media_uuid # 0
                    /\ \E f \in db.media : f.uuid = r.media_uuid

\* C14: a record that is linked to a PayloadRecord keeps that payload
\* identifier through every later storage operation, and exactly one media
\* row bears it; store_media_with_uuid on a linked record returns the same
\* identifier, adds no media row, sets the location when it is given one and
\* keeps the stored location when it is given none; update_media_file_path
\* adds no media row and changes no link.
C14_Step ==
    /\ \A r \in sess.messages :
          r.media_uuid # 0 =>
              /\ LinkOf(sess', r.message_id) = r.media_uuid
              /\ Cardinality({f \in sess'.media : f.uuid = r.media_uuid}) = 1
    /\ (store_call' # None /\ store_call'[1].op = "store_media_with_uuid"
            /\ LinkOf(sess, store_call'[1].message_id) # 0) =>
          LET c == store_call'[1]
              u == LinkOf(sess, c.message_id)
          IN /\ c.uuid = u
             /\ {f.uuid : f \in sess'.media} = {f.uuid : f \in sess.media}
             /\ PathOf(sess', u) = IF c.file_path # 0 THEN c.file_path ELSE PathOf(sess, u)
    /\ (store_call' # None /\ store_call'[1].op = "update_media_file_path") =>
          /\ {f.uuid : f \in sess'.media} = {f.uuid : f \in sess.media}
          /\ sess'.messages = sess.messages

C14_PayloadIdentifierKept == [][C14_Step]_vars

\* a record linked to a PayloadRecord without location has been stored again,
\* now with a location: the same PayloadRecord has the location
C14_Witness ==
    /\ store_call # None
    /\ store_call[1].op = "store_media_with_uuid"
    /\ store_call[1].linked # 0
    /\ store_call[1].path = 0
    /\ store_call[1].file_path # 0
    /\ store_call[1].uuid = store_call[1].linked
    /\ PathOf(sess, store_call[1].linked) = store_call[1].file_path

\* index of the last message of the batch with that id
LastOf(messages, message_id) ==
    CHOOSE j \in 1..Len(messages) :
        /\ messages[j].message_id = message_id
        /\ \A k \in 1..Len(messages) : messages[k].message_id = message_id => k <= j

\* C15: the store holds at most one row per remote record id; a batch upsert
\* leaves one row for every id of the batch, with the timestamp of the last
\* message of the batch that has the id and the media link the row had, and
\* touches no other row, also when an id occurs twice in the batch.
C15_Step ==
    /\ \A r1 \in sess'.messages : \A r2 \in sess'.messages :
          r1.message_id = r2.message_id => r1 = r2
    /\ (store_call' # None /\ store_call'[1].op = "batch_upsert_messages") =>
          LET ms == store_call'[1].messages
              ids == {ms[i].message_id : i \in 1..Len(ms)}
          IN /\ Ids(sess'.messages) = Ids(sess.messages) \cup ids
             /\ \A id \in ids :
                   [message_id |-> id, date |-> ms[LastOf(ms, id)].date,
                    media_uuid |-> LinkOf(sess, id)] \in sess'.messages
             /\ \A r \in sess.messages : r.message_id \notin ids => r \in sess'.messages
             /\ sess'.media = sess.media

C15_OneRowPerRecord == [][C15_Step]_vars

\* a batch with the same id twice, with different timestamps, has been
\* upserted over a stored row of that id that is linked to a PayloadRecord
C15_Witness ==
    /\ store_call # None
    /\ store_call[1].op = "batch_upsert_messages"
    /\ Len(store_call[1].messages) = 2
    /\ store_call[1].messages[1].message_id = store_call[1].messages[2].message_id
    /\ store_call[1].messages[1].date # store_call[1].messages[2].date
    /\ store_call[1].messages[1].message_id \in store_call[1].known
    /\ LinkOf(sess, store_call[1].messages[1].message_id) # 0

\* the segments of that source, as date ranges, in timeline order
RangesOf(segs, source) ==
    LET sel == SelectSeq(segs, LAMBDA x : x.source = source)
    IN [i \in 1..Len(sel) |-> DateRange(sel[i].start, sel[i].end)]

\* C16: the timeline build_timeline returns is sorted by start, its segments
\* do not overlap and follow one another from requested.start to
\* requested.end; its remote segments are the gaps and its cache segment,
\* if any, is the covered range. With the cache holding [0, 2] and the
\* request [1, 3] (the spec's [Jan 1, Jan 10] and [Jan 5, Jan 15]) the
\* timeline is the cache segment [1, 2] followed by the remote segment [2, 3].
C16_BuildTimeline ==
    pc = "alg_timeline" =>
        /\ \A i \in 1..Len(segments) : \A j \in 1..Len(segments) :
              i < j => /\ segments[i].start <= segments[j].start
                       /\ segments[i].end <= segments[j].start
        /\ Len(segments) >= 1
        /\ segments[1].start = requested.start
        /\ segments[Len(segments)].end = requested.end
        /\ \A i \in 1..(Len(segments) - 1) : segments[i].end = segments[i + 1].start
        /\ \A i \in 1..Len(segments) : segments[i].source \in {"telegram", "cache"}
        /\ RangesOf(segments, "telegram") = gaps
        /\ RangesOf(segments, "cache") = covered
        /\ (requested = DateRange(1, 3) /\ cached_range = Some(DateRange(0, 2))) =>
              segments = <<TimelineSegment(1, 2, "cache"), TimelineSegment(2, 3, "telegram")>>

\* the timeline of the spec's scenario has been built
C16_Witness ==
    /\ pc = "alg_timeline"
    /\ requested = DateRange(1, 3)
    /\ cached_range = Some(DateRange(0, 2))
    /\ Len(segments) = 2

\* C18: every item a sync over [start, end] emits has start <= timestamp <=
\* end; the fetcher's batch holds only records of the segment being fetched,
\* a record past segment.end is neither stored nor emitted, and a completed
\* sync has emitted at least as many items as a sync over any sub-window,
\* started from the same store and remote source, emits.
SubWindows == {r \in RequestedRanges : requested.start <= r.start /\ r.end <= requested.end}

C18_RangeFilter ==
    /\ \A i \in 1..Len(produced) : InRequest(produced[i].date)
    /\ pc \in {"telegram", "save_upsert", "save_media", "deliver"} =>
          \A i \in 1..Len(batch) :
              /\ batch[i].date >= segments[segi].start
              /\ batch[i].date <= segments[segi].end
    /\ \A r \in sess.messages :
          r.message_id \in Ids(db0.messages) \/ (pc # "idle" /\ InRequest(r.date))
    /\ pc = "done" =>
          /\ IdentSeq(Items) = sync_items(force_refresh, requested, db0, remote)
          /\ \A w \in SubWindows :
                Len(sync_items(force_refresh, w, db0, remote)) <= Len(Items)

\* a sync over a proper sub-window of the time line has completed while the
\* remote source holds a record past its end and the sync stored and emitted
\* records
C18_Witness ==
    /\ pc = "done"
    /\ requested.end < MaxTime
    /\ \E m \in remote : m.date > requested.end /\ m.id \notin Ids(db.messages)
    /\ \E i \in 1..Len(Items) : Items[i].source = "telegram"

\* C17: the direction of the history stream follows the query: with
\* reverse=false the items of a completed stream are in non-increasing
\* timestamp order, with reverse=true or without reverse in non-decreasing
\* order.
C17_ReverseDirection ==
    (pc = "done" /\ query # None) =>
        /\ query[1].reverse = Some(FALSE) =>
              \A i \in 1..(Len(Items) - 1) : Items[i].date >= Items[i + 1].date
        /\ query[1].reverse \in {None, Some(TRUE)} =>
              \A i \in 1..(Len(Items) - 1) : Items[i].date <= Items[i + 1].date

\* C19: a step of get_history that answers 400 leaves the handler over with
\* no storage opened, the stored state as it was, and no remote call or
\* listing made for the request; and a request get_history lets through has
\* parsed dates with start strictly before end.
C19_Step ==
    /\ status' = 400 =>
          /\ detail' \in {"Invalid date format", "start_date must be before end_date"}
          /\ pc = "idle" /\ pc' = "idle"
          /\ ~storage_open'
          /\ remote_calls' = {}
          /\ listing' = <<>>
          /\ db' = db /\ sess' = sess
          /\ query' = None
    /\ (pc = "idle" /\ pc' # "idle") =>
          /\ requested'.start < requested'.end
          /\ status' # 400

====
